---- MODULE Spec2Model ----
(***************************************************************************)
(* GF2: Boolean polynomials, ideals and the Buchberger engine.             *)
(*                                                                         *)
(* A monomial MM<_n> is a bit word; it is written here as the set of the   *)
(* indices of its one bits (bit i set <=> x_i occurs).  A polynomial MP is *)
(* the std::list of its monomials, written as a sequence.  An ideal MI is  *)
(* the std::list of its polynomials, written as a sequence.                *)
(***************************************************************************)
EXTENDS Integers, Sequences, FiniteSets, TLC

\* number of variables: the template parameter _n of MM, MP, MI and Buchb
N == 4

\* the largest number of Update() calls of a session
MaxUpdates == 2

Vars == 0 .. (N - 1)

\* all monomials (all values of a word of N bits)
MMs == SUBSET Vars

\* the monomial orders the model instantiates _O with
Orders == {"lex", "grlex", "grevlex"}

(***************************************************************************)
(* WW / MM : words and monomials                                           *)
(***************************************************************************)
RECURSIVE Pow2(_)
Pow2(k) == IF k = 0 THEN 1 ELSE 2 * Pow2(k - 1)

\* value of the machine word that holds bits 0 .. k-1 of w (bit i weighs 2^i)
RECURSIVE WordBits(_, _)
WordBits(w, k) ==
    IF k = 0 THEN 0
    ELSE WordBits(w, k - 1) + (IF (k - 1) \in w THEN Pow2(k - 1) ELSE 0)

GetWord(w) == WordBits(w, N)

\* WW::Compare: the words are compared as unsigned numbers
WWCompare(w1, w2) ==
    IF GetWord(w1) > GetWord(w2) THEN 1
    ELSE IF GetWord(w1) < GetWord(w2) THEN -1
    ELSE 0

\* WW::Weight / MM::Deg
Deg(m) == Cardinality(m)

\* MM::Test
Test(m, i) == i \in m

\* MM::operator*= : logical OR of the exponents
MMMul(m1, m2) == m1 \cup m2

\* MM::LCM : logical OR of the exponents
LCM(m1, m2) == m1 \cup m2

\* GCD : logical AND of the exponents
GCD(m1, m2) == m1 \cap m2

\* MM::IsRelPrime
IsRelPrime(m1, m2) == m1 \cap m2 = {}

\* MM::IsDivide, operator| : m1 divides m2  (m1 & ~m2 == 0)
IsDivide(m1, m2) == m1 \ m2 = {}

\* a division that leaves the monomial as it is
MMDivKeep(m1, m2) == m1

\* MM::operator/= : m1 & ~m2
MMDiv(m1, m2) == m1 \ m2

\* MM::Calc : value of the monomial at the point val  ((val | ~m) is all ones)
MMCalc(m, val) == m \ val = {}

(***************************************************************************)
(* WW<_n> as an array of machine words: the words of length n are sets of  *)
(* positions below n, and position i is bit i % B_PER_W of _words[i /      *)
(* B_PER_W].  The octet of the model has B_PER_O bits and the machine word  *)
(* of the model O_PER_W octets.                                            *)
(***************************************************************************)
B_PER_O == 2

\* the octets of a machine word (the word of 16 bits)
O_PER_W == 2

B_PER_W == O_PER_W * B_PER_O

\* WW::_wcount
WCount(n) == (n + B_PER_W - 1) \div B_PER_W

\* WW::_tcount : the unused bits of the last machine word
TCount(n) == (B_PER_W - (n % B_PER_W)) % B_PER_W

\* the positions kept in _words[pos]
WordRange(pos) == (pos * B_PER_W) .. (pos * B_PER_W + B_PER_W - 1)

\* the number held by the bits S counted from position base
RECURSIVE BitsValue(_, _)
BitsValue(S, base) ==
    IF S = {} THEN 0
    ELSE LET i == CHOOSE j \in S : TRUE
         IN Pow2(i - base) + BitsValue(S \ {i}, base)

\* _words[pos] as a number
WordAt(w, pos) == BitsValue(w \cap WordRange(pos), pos * B_PER_W)

\* _words[pos] = v
WordPut(w, pos, v) ==
    (w \ WordRange(pos))
        \cup {i \in WordRange(pos) : (v \div Pow2(i - pos * B_PER_W)) % 2 = 1}

\* a trim that leaves the unused bits as they are
TrimNone(n, w) == w

\* WW::Trim : (_words[_wcount - 1] <<= _tcount) >>= _tcount
Trim(n, w) ==
    IF TCount(n) # 0
    THEN WordPut(w, WCount(n) - 1,
             WordAt(w, WCount(n) - 1) % Pow2(B_PER_W - TCount(n)))
    ELSE w

\* WW::Set(pos, val)
SetBit(w, pos, val) == IF val THEN w \cup {pos} ELSE w \ {pos}

\* WW::Set(pos1, pos2, val) when pos1 and pos2 are in different machine
\* words: the end of the word of pos1, the start of the word of pos2, the
\* full words between them
SetWords(w, pos1, pos2, val) ==
    LET head == IF pos1 % B_PER_W # 0
                THEN pos1 .. ((pos1 \div B_PER_W) * B_PER_W + B_PER_W - 1)
                ELSE {}
        wpos1 == IF pos1 % B_PER_W # 0 THEN pos1 \div B_PER_W + 1
                 ELSE pos1 \div B_PER_W
        tail == IF pos2 % B_PER_W # 0
                THEN ((pos2 \div B_PER_W) * B_PER_W) .. (pos2 - 1)
                ELSE {}
        full == (wpos1 * B_PER_W) .. ((pos2 \div B_PER_W) * B_PER_W - 1)
    IN IF val THEN w \cup head \cup tail \cup full
       ELSE w \ (head \cup tail \cup full)

\* WW::Set(pos1, pos2, val)
SetRange(w, pos1, pos2, val) ==
    IF pos1 \div B_PER_W = pos2 \div B_PER_W
    THEN (IF val THEN w \cup (pos1 .. (pos2 - 1)) ELSE w \ (pos1 .. (pos2 - 1)))
    ELSE SetWords(w, pos1, pos2, val)

\* WW::First(weight)
First(n, w, weight) == SetRange(SetRange(w, 0, weight, TRUE), weight, n, FALSE)

\* the first loop of WW::Pack; the word and the position pos it leaves
RECURSIVE PackLoop(_, _, _, _, _)
PackLoop(n, w, wMask, posMask, pos) ==
    IF posMask >= n THEN [w |-> w, pos |-> pos]
    ELSE IF Test(wMask, posMask)
    THEN PackLoop(n, SetBit(w, pos, Test(w, posMask)), wMask, posMask + 1,
                  pos + 1)
    ELSE PackLoop(n, w, wMask, posMask + 1, pos)

\* the second loop of WW::Pack: for (; pos < _n && pos % B_PER_W; Set(pos++, 0))
RECURSIVE PackBits(_, _, _)
PackBits(n, w, pos) ==
    IF pos < n /\ pos % B_PER_W # 0 THEN PackBits(n, SetBit(w, pos, FALSE), pos + 1)
    ELSE [w |-> w, pos |-> pos]

\* the third loop of WW::Pack: for (; pos < _wcount; _words[pos++] = 0)
RECURSIVE PackWords(_, _, _)
PackWords(n, w, pos) ==
    IF pos < WCount(n) THEN PackWords(n, WordPut(w, pos, 0), pos + 1) ELSE w

\* the loops of WW::Pack after the first
PackFill(n, r) == PackWords(n, PackBits(n, r.w, r.pos).w, PackBits(n, r.w, r.pos).pos)

\* WW::Pack
Pack(n, w, wMask) == PackFill(n, PackLoop(n, w, wMask, 0, 0))

\* the increment of WW::Next: for (; pos < _wcount && ++_words[pos] == 0; ++pos)
RECURSIVE NextInc(_, _, _)
NextInc(n, w, pos) ==
    IF pos >= WCount(n) THEN [w |-> w, pos |-> pos]
    ELSE IF (WordAt(w, pos) + 1) % Pow2(B_PER_W) = 0
    THEN NextInc(n, WordPut(w, pos, 0), pos + 1)
    ELSE [w |-> WordPut(w, pos, (WordAt(w, pos) + 1) % Pow2(B_PER_W)),
          pos |-> pos]

\* WW::Next(false) after the increment r
NextWord(n, r) ==
    IF r.pos + 1 < WCount(n) THEN [w |-> r.w, ret |-> TRUE]
    ELSE IF r.pos = WCount(n) THEN [w |-> r.w, ret |-> FALSE]
    ELSE [w |-> Trim(n, r.w), ret |-> WordAt(Trim(n, r.w), r.pos) # 0]

\* the first position from pos on that holds val, n when there is none
RECURSIVE Scan(_, _, _, _)
Scan(n, w, pos, val) ==
    IF pos < n /\ Test(w, pos) # val THEN Scan(n, w, pos + 1, val) ELSE pos

\* WW::Next(true) for the run of ones pos .. end - 1
NextRun(n, w, pos, end) ==
    IF pos = n THEN [w |-> w, ret |-> FALSE]
    ELSE IF end = n THEN [w |-> First(n, w, end - pos), ret |-> FALSE]
    ELSE [w |-> SetBit(SetRange(SetRange(w, 0, end - pos - 1, TRUE),
                                end - pos - 1, end, FALSE), end, TRUE),
          ret |-> TRUE]

\* WW::Next(saveWeight)
WWNext(n, w, saveWeight) ==
    IF ~saveWeight THEN NextWord(n, NextInc(n, w, 0))
    ELSE NextRun(n, w, Scan(n, w, 0, TRUE),
                 IF Scan(n, w, 0, TRUE) = n THEN n
                 ELSE Scan(n, w, Scan(n, w, 0, TRUE) + 1, FALSE))

\* the machine words as numbers: 0 .. WORD_MAX
Words == 0 .. (Pow2(B_PER_W) - 1)

\* the bits of the machine word v
BitsOf(v) == {i \in 0 .. (B_PER_W - 1) : (v \div Pow2(i)) % 2 = 1}

\* v << k and v >> k of machine words
Shl(v, k) == (v * Pow2(k)) % Pow2(B_PER_W)
Shr(v, k) == v \div Pow2(k)

\* a | b of machine words
OrW(a, b) == BitsValue(BitsOf(a) \cup BitsOf(b), 0)

\* WW::_ocount
OCount(n) == (n + B_PER_O - 1) \div B_PER_O

\* the positions of the octet pos of the representation
OctetRange(pos) == (pos * B_PER_O) .. (pos * B_PER_O + B_PER_O - 1)

\* WW::Weight : the sum of the weights of the octets of the representation
Weight(n, w) == Cardinality(w \cap (0 .. (OCount(n) * B_PER_O - 1)))

\* WW::SetWord
SetWord(n, w, pos, val) ==
    IF pos = WCount(n) - 1 THEN Trim(n, WordPut(w, pos, val))
    ELSE WordPut(w, pos, val)

\* WW::SetOctet : the bits of the octet are cleared, then those of val are set
SetOctet(n, w, pos, val) ==
    (w \ OctetRange(pos)) \cup {pos * B_PER_O + i : i \in BitsOf(val)}

\* WW::FlipAll
FlipAll(n, w) == Trim(n, (0 .. (WCount(n) * B_PER_W - 1)) \ w)

\* _words[pos] = 0 for the machine words from pos on
ZeroFrom(n, w, pos) == w \ ((pos * B_PER_W) .. (WCount(n) * B_PER_W - 1))

\* _words[pos] = 0 for the machine words before pos
ZeroBefore(w, pos) == w \ (0 .. (pos * B_PER_W - 1))

\* WW::ShLo, the shift no multiple of B_PER_W: all the words but the last,
\* then the last
RECURSIVE ShLoBits(_, _, _, _, _)
ShLoBits(n, w, wshift, shift, pos) ==
    IF pos + wshift + 1 < WCount(n)
    THEN ShLoBits(n, WordPut(w, pos,
                      OrW(Shr(WordAt(w, pos + wshift), shift),
                          Shl(WordAt(w, pos + wshift + 1), B_PER_W - shift))),
                  wshift, shift, pos + 1)
    ELSE WordPut(w, pos, Shr(WordAt(w, pos + wshift), shift))

\* WW::ShLo, the shift a multiple of B_PER_W
RECURSIVE ShLoWords(_, _, _, _)
ShLoWords(n, w, wshift, pos) ==
    IF pos + wshift < WCount(n)
    THEN ShLoWords(n, WordPut(w, pos, WordAt(w, pos + wshift)), wshift, pos + 1)
    ELSE w

\* WW::ShLo
ShLo(n, w, shift) ==
    IF shift < n
    THEN ZeroFrom(n,
             IF shift % B_PER_W # 0
             THEN ShLoBits(n, w, shift \div B_PER_W, shift % B_PER_W, 0)
             ELSE ShLoWords(n, w, shift \div B_PER_W, 0),
             WCount(n) - (shift \div B_PER_W))
    ELSE {}

\* WW::ShHi, the shift no multiple of B_PER_W: all the words but the first,
\* then the first
RECURSIVE ShHiBits(_, _, _, _, _)
ShHiBits(n, w, wshift, shift, pos) ==
    IF pos > wshift
    THEN ShHiBits(n, WordPut(w, pos,
                      OrW(Shl(WordAt(w, pos - wshift), shift),
                          Shr(WordAt(w, pos - wshift - 1), B_PER_W - shift))),
                  wshift, shift, pos - 1)
    ELSE WordPut(w, pos, Shl(WordAt(w, pos - wshift), shift))

\* WW::ShHi, the shift a multiple of B_PER_W
RECURSIVE ShHiWords(_, _, _, _)
ShHiWords(n, w, wshift, pos) ==
    IF pos + 1 > wshift
    THEN ShHiWords(n, WordPut(w, pos, WordAt(w, pos - wshift)), wshift, pos - 1)
    ELSE w

\* WW::ShHi
ShHi(n, w, shift) ==
    IF shift < n
    THEN ZeroBefore(
             Trim(n, IF shift % B_PER_W # 0
                     THEN ShHiBits(n, w, shift \div B_PER_W, shift % B_PER_W,
                                   WCount(n) - 1)
                     ELSE ShHiWords(n, w, shift \div B_PER_W, WCount(n) - 1)),
             shift \div B_PER_W)
    ELSE {}

\* WW::RotLo : ShLo(shift) |= WW(*this).ShHi(_n - shift), the right operand
\* first
RotLo(n, w, shift) == ShLo(n, w, shift % n) \cup ShHi(n, w, n - (shift % n))

\* WW::RotHi
RotHi(n, w, shift) == ShHi(n, w, shift % n) \cup ShLo(n, w, n - (shift % n))

\* WW::Last(weight)
Last(n, w, weight) ==
    SetRange(SetRange(w, 0, n - weight, FALSE), n - weight, n, TRUE)

\* the decrement of WW::Prev: for (; pos < _wcount && --_words[pos] == SIZE_MAX; ++pos)
RECURSIVE PrevDec(_, _, _)
PrevDec(n, w, pos) ==
    IF pos >= WCount(n) THEN [w |-> w, pos |-> pos]
    ELSE IF WordAt(w, pos) = 0
    THEN PrevDec(n, WordPut(w, pos, Pow2(B_PER_W) - 1), pos + 1)
    ELSE [w |-> WordPut(w, pos, WordAt(w, pos) - 1), pos |-> pos]

\* WW::Prev(false) after the decrement r
PrevWord(n, r) ==
    IF r.pos < WCount(n) THEN [w |-> r.w, ret |-> TRUE]
    ELSE [w |-> Trim(n, r.w), ret |-> FALSE]

\* WW::Prev(true) for the run of ones 0 .. end - 1 and the next one at pos
PrevRun(n, w, end, pos) ==
    IF pos = n THEN [w |-> Last(n, w, end), ret |-> FALSE]
    ELSE [w |-> SetBit(SetRange(SetRange(w, 0, pos - end - 1, FALSE),
                                pos - end - 1, pos, TRUE), pos, FALSE),
          ret |-> TRUE]

\* WW::Prev(true) for the first one at pos
PrevOne(n, w, pos) ==
    IF pos = n THEN [w |-> w, ret |-> FALSE]
    ELSE IF pos > 0
    THEN [w |-> SetBit(SetBit(w, pos - 1, TRUE), pos, FALSE), ret |-> TRUE]
    ELSE PrevRun(n, w, Scan(n, w, 1, FALSE),
                 Scan(n, w, Scan(n, w, 1, FALSE), TRUE))

\* WW::Prev(saveWeight)
Prev(n, w, saveWeight) ==
    IF ~saveWeight THEN PrevWord(n, PrevDec(n, w, 0))
    ELSE PrevOne(n, w, Scan(n, w, 0, TRUE))

\* the loop of WW::Unpack, from posMask down
RECURSIVE UnpackLoop(_, _, _, _)
UnpackLoop(w, wMask, pos, posMask) ==
    IF posMask = 0 THEN w
    ELSE IF Test(wMask, posMask - 1)
    THEN UnpackLoop(SetBit(w, posMask - 1, Test(w, pos - 1)), wMask, pos - 1,
                    posMask - 1)
    ELSE UnpackLoop(SetBit(w, posMask - 1, FALSE), wMask, pos, posMask - 1)

\* WW::Unpack
Unpack(n, w, wMask) == UnpackLoop(w, wMask, Weight(n, wMask), n)

\* min(_wcount, wRight._wcount) machine words of the word wRight
LoWords(n, m, wRight) ==
    wRight \cap (0 .. (B_PER_W * (IF WCount(n) < WCount(m) THEN WCount(n)
                                  ELSE WCount(m)) - 1))

\* WW::operator=(const WW<_m>&) for a word of another length m
AssignWW(n, w, m, wRight) ==
    IF n < m THEN Trim(n, LoWords(n, m, wRight)) ELSE LoWords(n, m, wRight)

\* WW::SetLo : the words of w but the last, then the last under the mask of
\* the m % B_PER_W low bits
SetLo(n, w, m, wLo) ==
    IF TCount(m) # 0
    THEN (w \ (0 .. (m - 1))) \cup wLo
    ELSE (w \ (0 .. (WCount(m) * B_PER_W - 1))) \cup wLo

\* WW::SetHi, the high part starting inside a machine word
RECURSIVE SetHiBits(_, _, _, _, _, _)
SetHiBits(n, w, m, wHi, offset, pos) ==
    IF pos < WCount(m)
    THEN SetHiBits(n, WordPut(w, pos + (n - m) \div B_PER_W,
                       OrW(Shl(WordAt(wHi, pos), offset),
                           Shr(WordAt(wHi, pos - 1), B_PER_W - offset))),
                   m, wHi, offset, pos + 1)
    ELSE IF pos + (n - m) \div B_PER_W < WCount(n)
    THEN WordPut(w, pos + (n - m) \div B_PER_W,
                 Shr(WordAt(wHi, pos - 1), B_PER_W - offset))
    ELSE w

\* WW::SetHi, the first machine word of the high part starting inside it
SetHiFirst(w, start, offset, first) ==
    WordPut(w, start, OrW(WordAt(w, start) % Pow2(offset), Shl(first, offset)))

\* WW::SetHi, the high part starting with a machine word
RECURSIVE SetHiWords(_, _, _, _, _)
SetHiWords(n, w, m, wHi, pos) ==
    IF pos < WCount(m)
    THEN SetHiWords(n, WordPut(w, pos + (n - m) \div B_PER_W, WordAt(wHi, pos)),
                    m, wHi, pos + 1)
    ELSE w

\* WW::SetHi
SetHi(n, w, m, wHi) ==
    Trim(n, IF (n - m) % B_PER_W # 0
            THEN SetHiBits(n, SetHiFirst(w, (n - m) \div B_PER_W,
                                         (n - m) % B_PER_W, WordAt(wHi, 0)),
                           m, wHi, (n - m) % B_PER_W, 1)
            ELSE SetHiWords(n, w, m, wHi, 0))

(***************************************************************************)
(* Monomial orders                                                         *)
(***************************************************************************)
\* a comparison of the words in the opposite direction
CompareLexBack(m1, m2) == WWCompare(m2, m1)

\* OrderLex::Compare
CompareLex(m1, m2) == WWCompare(m1, m2)

\* a comparison by the parity of the degree first
CompareGrlexParity(m1, m2) ==
    IF Deg(m1) % 2 # Deg(m2) % 2
    THEN (IF Deg(m1) % 2 < Deg(m2) % 2 THEN -1 ELSE 1)
    ELSE WWCompare(m1, m2)

\* OrderGrlex::Compare
CompareGrlex(m1, m2) ==
    LET nDiff == Deg(m1) - Deg(m2) IN
    IF nDiff = 0 THEN WWCompare(m1, m2)
    ELSE IF nDiff < 0 THEN -1 ELSE 1

\* _revbyte[w & 255]: the byte with its bits in reverse order (N <= 8)
RECURSIVE RevBits(_, _)
RevBits(w, k) ==
    IF k = 0 THEN 0
    ELSE RevBits(w, k - 1) + (IF (k - 1) \in w THEN Pow2(7 - (k - 1)) ELSE 0)

RevByte(w) == RevBits(w, N)

\* OrderGrevlex::Compare
CompareGrevlex(m1, m2) ==
    LET nDiff == Deg(m1) - Deg(m2) IN
    IF nDiff # 0 THEN (IF nDiff < 0 THEN -1 ELSE 1)
    ELSE IF GetWord(m1) = GetWord(m2) THEN 0
    ELSE IF RevByte(m1) < RevByte(m2) THEN 1
    ELSE -1

\* Word::Reverse on a word of n symbols
Reverse(n, m) == {n - 1 - i : i \in m}

\* Word::GetLeft : the first k symbols
GetLeft(k, m) == {i \in m : i < k}

\* Word::GetRight : the last k symbols of a word of n symbols
GetRight(n, k, m) == {i - (n - k) : i \in {j \in m : j >= n - k}}

\* OrderAlex::A as the model sets it for n variables: the last column holds
\* the weights 1 .. n of the variables, the other columns those of the
\* identity matrix
AlexA(n) ==
    [pos \in 0 .. (n - 1) |-> [row \in 0 .. (n - 1) |->
        IF row = n - 1 THEN pos + 1 ELSE IF pos = row THEN 1 ELSE 0]]

\* the inner loop of OrderAlex::Compare: the exponent of m times column row
RECURSIVE AlexSum(_, _, _, _)
AlexSum(A, m, row, pos) ==
    IF pos = 0 THEN 0
    ELSE AlexSum(A, m, row, pos - 1)
         + (IF Test(m, pos - 1) THEN A[pos - 1][row] ELSE 0)

\* OrderAlex::Compare, the loop over the columns from column row down
RECURSIVE CompareAlex(_, _, _, _, _)
CompareAlex(n, A, m1, m2, row) ==
    IF row < 0 THEN 0
    ELSE IF AlexSum(A, m1, row, n) # AlexSum(A, m2, row, n)
    THEN (IF AlexSum(A, m1, row, n) < AlexSum(A, m2, row, n) THEN -1 ELSE 1)
    ELSE CompareAlex(n, A, m1, m2, row - 1)

\* every order the model instantiates _O with; Orders are those of the
\* engine and of the ideals
AllOrders ==
    Orders \cup {"alex", "rev(grlex)", "gr(lex)", "gr(grevlex)",
                 "lr(grlex,lex)", "rl(lex,grevlex)"}

\* the order object: its class, its number of variables n, its members
OrderOf(o) ==
    CASE o = "lex" -> [kind |-> "lex", n |-> N]
      [] o = "grlex" -> [kind |-> "grlex", n |-> N]
      [] o = "grevlex" -> [kind |-> "grevlex", n |-> N]
      [] o = "alex" -> [kind |-> "alex", n |-> N, A |-> AlexA(N)]
      [] o = "rev(grlex)" ->
            [kind |-> "rev", n |-> N, order |-> [kind |-> "grlex", n |-> N]]
      [] o = "gr(lex)" ->
            [kind |-> "gr", n |-> N, order |-> [kind |-> "lex", n |-> N]]
      [] o = "gr(grevlex)" ->
            [kind |-> "gr", n |-> N, order |-> [kind |-> "grevlex", n |-> N]]
      [] o = "lr(grlex,lex)" ->
            [kind |-> "lr", n |-> N,
             order1 |-> [kind |-> "grlex", n |-> N \div 2],
             order2 |-> [kind |-> "lex", n |-> N - N \div 2]]
      [] o = "rl(lex,grevlex)" ->
            [kind |-> "rl", n |-> N,
             order1 |-> [kind |-> "lex", n |-> N \div 2],
             order2 |-> [kind |-> "grevlex", n |-> N - N \div 2]]

\* Compare of the order object O
RECURSIVE OrderCompare(_, _, _)
OrderCompare(O, m1, m2) ==
    CASE O.kind = "lex" -> CompareLex(m1, m2)
      [] O.kind = "grlex" -> CompareGrlex(m1, m2)
      [] O.kind = "grevlex" -> CompareGrevlex(m1, m2)
      [] O.kind = "alex" -> CompareAlex(O.n, O.A, m1, m2, O.n - 1)
      [] O.kind = "rev" ->
            OrderCompare(O.order, Reverse(O.n, m1), Reverse(O.n, m2))
      [] O.kind = "gr" ->
            IF Deg(m1) # Deg(m2)
            THEN (IF Deg(m1) < Deg(m2) THEN -1 ELSE 1)
            ELSE OrderCompare(O.order, m1, m2)
      [] O.kind = "lr" ->
            LET res == OrderCompare(O.order1,
                           GetLeft(O.order1.n, m1), GetLeft(O.order1.n, m2))
            IN IF res = 0
               THEN OrderCompare(O.order2,
                        GetRight(O.n, O.order2.n, m1),
                        GetRight(O.n, O.order2.n, m2))
               ELSE res
      [] O.kind = "rl" ->
            LET res == OrderCompare(O.order2,
                           GetRight(O.n, O.order2.n, m1),
                           GetRight(O.n, O.order2.n, m2))
            IN IF res = 0
               THEN OrderCompare(O.order1,
                        GetLeft(O.order1.n, m1), GetLeft(O.order1.n, m2))
               ELSE res

\* _order.Compare for the order o
CompareTab ==
    [o \in AllOrders |-> [m1 \in MMs |-> [m2 \in MMs |->
        OrderCompare(OrderOf(o), m1, m2)]]]

Compare(o, m1, m2) == CompareTab[o][m1][m2]

(***************************************************************************)
(* MP : polynomials                                                        *)
(***************************************************************************)
\* insertion of m into a list sorted by decreasing order (helper of sort)
RECURSIVE SortInsert(_, _, _)
SortInsert(o, m, s) ==
    IF s = <<>> THEN <<m>>
    ELSE IF Compare(o, s[1], m) > 0 THEN <<s[1]>> \o SortInsert(o, m, Tail(s))
    ELSE <<m>> \o s

\* std::list::sort(_order): decreasing
RECURSIVE SortDesc(_, _)
SortDesc(o, s) ==
    IF s = <<>> THEN <<>> ELSE SortInsert(o, s[1], SortDesc(o, Tail(s)))

\* the second loop of MP::Normalize: equal neighbours are erased in pairs
RECURSIVE ErasePairs(_)
ErasePairs(s) ==
    IF Len(s) < 2 THEN s
    ELSE IF s[1] = s[2] THEN ErasePairs(SubSeq(s, 3, Len(s)))
    ELSE <<s[1]>> \o ErasePairs(Tail(s))

\* MP::Normalize
Normalize(o, s) == ErasePairs(SortDesc(o, s))

\* MP::IsNormalized
IsNormalized(o, p) ==
    \A i \in 1 .. (Len(p) - 1) : Compare(o, p[i], p[i + 1]) > 0

\* MP::LM
LM(p) == p[1]

\* MP::PopLM
PopLM(p) == Tail(p)

\* MP::SymDiff(const MP&) and the left operand of MP::SymDiffSplice
RECURSIVE SymDiff(_, _, _)
SymDiff(o, p, q) ==
    IF p = <<>> THEN q
    ELSE IF q = <<>> THEN p
    ELSE LET cmp == Compare(o, p[1], q[1]) IN
         IF cmp > 0 THEN <<p[1]>> \o SymDiff(o, Tail(p), q)
         ELSE IF cmp < 0 THEN <<q[1]>> \o SymDiff(o, p, Tail(q))
         ELSE SymDiff(o, Tail(p), Tail(q))

\* MP::SymDiff(const MM&)
SymDiffMM(o, p, m) == SymDiff(o, p, <<m>>)

\* MP::Union(const MM&)
RECURSIVE UnionMM(_, _, _)
UnionMM(o, p, m) ==
    IF p = <<>> THEN <<m>>
    ELSE IF Compare(o, p[1], m) > 0 THEN <<p[1]>> \o UnionMM(o, Tail(p), m)
    ELSE IF p[1] = m THEN p
    ELSE <<m>> \o p

\* MP::IsContain
IsContainMM(p, m) == \E i \in DOMAIN p : p[i] = m

\* MP::Compare
RECURSIVE MPCompare(_, _, _)
MPCompare(o, p, q) ==
    IF p = <<>> THEN (IF q = <<>> THEN 0 ELSE -1)
    ELSE IF q = <<>> THEN 1
    ELSE LET cmp == Compare(o, p[1], q[1]) IN
         IF cmp # 0 THEN cmp ELSE MPCompare(o, Tail(p), Tail(q))

\* MP::operator< for consistent polynomials
MPLess(o, p, q) == MPCompare(o, p, q) < 0

\* MP::operator*=(const MM&)
MulMM(o, p, m) == Normalize(o, [i \in DOMAIN p |-> p[i] \cup m])

\* MP::Calc : value of the polynomial at the point val
MPCalc(p, val) == Cardinality({i \in DOMAIN p : MMCalc(p[i], val)}) % 2 = 1

\* MP::Set(pos, val)
MPSet(o, p, pos, val) ==
    IF val = 0 THEN SelectSeq(p, LAMBDA m : ~Test(m, pos))
    ELSE Normalize(o, [i \in DOMAIN p |-> p[i] \ {pos}])

\* an SPoly(i) that leaves the polynomial as it is
SPolyVarKeep(o, i, p) == p

\* MP::SPoly(size_t i) and MP::SPoly(size_t i, const MP& poly)
SPolyVar(o, i, p) == Normalize(o, [k \in DOMAIN p |-> p[k] \cup {i}])

\* MP::SPoly(const MP& poly1, const MP& poly2), MP::SPoly(const MP& poly)
SPoly(o, p1, p2) ==
    LET lcm == LCM(LM(p1), LM(p2))
        t1 == PopLM(p1)
        t2 == PopLM(p2)
    IN Normalize(o, [k \in DOMAIN t1 |-> t1[k] \cup MMDiv(lcm, LM(p1))]
                    \o [k \in DOMAIN t2 |-> t2[k] \cup MMDiv(lcm, LM(p2))])

(***************************************************************************)
(* MP::Geobucket<_d> : the buckets are kept as a sequence, bucket k of the *)
(* code being element k + 1; _maxsizes[k] = _d^(k+1)                       *)
(***************************************************************************)
RECURSIVE Pow(_, _)
Pow(d, k) == IF k = 0 THEN 1 ELSE d * Pow(d, k - 1)

\* _maxsizes[i - 1]
MaxSize(d, i) == Pow(d, i)

\* Geobucket::NewBucket, repeated until bucket i exists
NewBucket(b, i) ==
    IF Len(b) >= i THEN b ELSE b \o [k \in 1 .. (i - Len(b)) |-> <<>>]

\* Geobucket(const _O&)
GBEmpty == << <<>> >>

\* the first loop of Geobucket::SymDiffSplice: the bucket that fits sz monomials
RECURSIVE GBFit(_, _, _)
GBFit(d, sz, i) == IF sz > MaxSize(d, i) THEN GBFit(d, sz, i + 1) ELSE i

\* the while loop of Geobucket::SymDiff / SymDiffSplice and the final Swap:
\* bucket j spills into the buckets after i until it fits
RECURSIVE GBSpill(_, _, _, _, _)
GBSpill(o, d, b, j, i) ==
    IF Len(b[j]) > MaxSize(d, i)
    THEN LET b1 == NewBucket(b, i + 1)
             b2 == [b1 EXCEPT ![j] = SymDiff(o, b1[j], b1[i + 1])]
         IN GBSpill(o, d, [b2 EXCEPT ![i + 1] = <<>>], j, i + 1)
    ELSE IF i = j THEN b
    ELSE [b EXCEPT ![i] = b[j], ![j] = b[i]]

\* Geobucket::SymDiff(const MM&)
GBSymDiff(o, d, b, m) ==
    GBSpill(o, d, [b EXCEPT ![1] = SymDiffMM(o, b[1], m)], 1, 1)

\* the polynomial goes to the first bucket whatever its size
GBSymDiffSpliceFirst(o, d, b, p) == [b EXCEPT ![1] = SymDiff(o, b[1], p)]

\* Geobucket::SymDiffSplice(MP&)
GBSymDiffSplice(o, d, b, p) ==
    LET i == GBFit(d, Len(p), 1)
        b1 == NewBucket(b, i)
    IN GBSpill(o, d, [b1 EXCEPT ![i] = SymDiff(o, b1[i], p)], i, i)

\* Geobucket(MP&)
GBInit(o, d, p) == GBSymDiffSplice(o, d, GBEmpty, p)

\* the do-while loop of Geobucket::PopLM; i = 0 stands for SIZE_MAX and j is
\* the bucket looked at next (j = 0: the loop is over)
RECURSIVE GBScan(_, _, _, _, _)
GBScan(o, b, i, j, lm) ==
    IF j = 0
    THEN [ok |-> i # 0, lm |-> lm,
          b |-> IF i # 0 THEN [b EXCEPT ![i] = PopLM(b[i])] ELSE b]
    ELSE IF b[j] = <<>> THEN GBScan(o, b, i, j - 1, lm)
    ELSE IF i = 0 \/ Compare(o, LM(b[j]), lm) > 0
         THEN GBScan(o, b, j, j - 1, LM(b[j]))
    ELSE IF Compare(o, LM(b[j]), lm) = 0
         THEN GBScan(o, [b EXCEPT ![i] = PopLM(b[i]), ![j] = PopLM(b[j])],
                     0, Len(b), lm)
    ELSE GBScan(o, b, i, j - 1, lm)

\* the leading monomial of the last bucket that is not empty, taken
\* without a look at the other buckets
GBPopLMLast(o, b) ==
    IF \A j \in DOMAIN b : b[j] = <<>> THEN [ok |-> FALSE, lm |-> {}, b |-> b]
    ELSE LET j == CHOOSE k \in DOMAIN b :
                      b[k] # <<>> /\ \A l \in DOMAIN b : l > k => b[l] = <<>>
         IN [ok |-> TRUE, lm |-> LM(b[j]), b |-> [b EXCEPT ![j] = PopLM(b[j])]]

\* Geobucket::PopLM
GBPopLM(o, b) == GBScan(o, b, 0, Len(b), {})

\* Geobucket::Mount
RECURSIVE GBMountFrom(_, _, _, _)
GBMountFrom(o, b, i, acc) ==
    IF i > Len(b) THEN acc ELSE GBMountFrom(o, b, i + 1, SymDiff(o, acc, b[i]))

GBMount(o, b) == GBMountFrom(o, b, 1, <<>>)

\* the division loop of MP::Mod
RECURSIVE ModLoop(_, _, _, _)
ModLoop(o, q, b, rem) ==
    LET r == GBPopLM(o, b) IN
    IF ~r.ok THEN rem
    ELSE IF IsDivide(LM(q), r.lm)
         THEN ModLoop(o, q,
                  GBSymDiffSplice(o, 4, r.b,
                      MulMM(o, PopLM(q), MMDiv(r.lm, LM(q)))), rem)
    ELSE ModLoop(o, q, r.b, Append(rem, r.lm))

\* MP::Mod : the remainder of p modulo the nonzero q
Mod(o, p, q) == ModLoop(o, q, GBInit(o, 4, p), <<>>)

\* the do-while loop of MP::ModClassic from its condition on; iter is the
\* position in p and Len(p) + 1 is end()
RECURSIVE ModClassicLoop(_, _, _, _, _)
ModClassicLoop(o, p, q, iter, changed) ==
    IF iter > Len(p) THEN [p |-> p, changed |-> changed]
    ELSE IF IsDivide(LM(q), p[iter])
    THEN ModClassicLoop(o,
             SymDiff(o, p, MulMM(o, q, MMDiv(p[iter], LM(q)))), q, 1, TRUE)
    ELSE ModClassicLoop(o, p, q, iter + 1, changed)

\* MP::ModClassic : the remainder and the flag returned.  The body of the
\* do-while loop runs before the condition is looked at: on the empty p it
\* reads through end(), and g is the monomial found there
ModClassic(o, p, q, g) ==
    IF p # <<>> THEN ModClassicLoop(o, p, q, 1, FALSE)
    ELSE IF IsDivide(LM(q), g)
    THEN ModClassicLoop(o, MulMM(o, q, MMDiv(g, LM(q))), q, 1, TRUE)
    ELSE [p |-> <<>>, changed |-> FALSE]

\* the do-while loop of MP::DivClassic from its condition on; quot is the
\* quotient pushed so far
RECURSIVE DivClassicLoop(_, _, _, _, _)
DivClassicLoop(o, polyMod, q, iter, quot) ==
    IF iter > Len(polyMod) THEN quot
    ELSE IF IsDivide(LM(q), polyMod[iter])
    THEN DivClassicLoop(o,
             SymDiff(o, polyMod, MulMM(o, q, MMDiv(polyMod[iter], LM(q)))),
             q, 1, Append(quot, MMDiv(polyMod[iter], LM(q))))
    ELSE DivClassicLoop(o, polyMod, q, iter + 1, quot)

\* MP::DivClassic : the quotient; g is the monomial read through end() when
\* p is empty
DivClassic(o, p, q, g) ==
    IF p # <<>> THEN DivClassicLoop(o, p, q, 1, <<>>)
    ELSE IF IsDivide(LM(q), g)
    THEN DivClassicLoop(o, MulMM(o, q, MMDiv(g, LM(q))), q, 1,
             <<MMDiv(g, LM(q))>>)
    ELSE <<>>

\* the division loop of MP::Div
RECURSIVE DivLoop(_, _, _, _)
DivLoop(o, q, b, quot) ==
    LET r == GBPopLM(o, b) IN
    IF ~r.ok THEN quot
    ELSE IF IsDivide(LM(q), r.lm)
         THEN DivLoop(o, q,
                  GBSymDiffSplice(o, 4, r.b,
                      MulMM(o, PopLM(q), MMDiv(r.lm, LM(q)))),
                  Append(quot, MMDiv(r.lm, LM(q))))
    ELSE DivLoop(o, q, r.b, quot)

\* Div that leaves the loop after the first monomial of the quotient
DivOnce(o, p, q) ==
    IF DivLoop(o, q, GBInit(o, 4, p), <<>>) = <<>> THEN <<>>
    ELSE <<DivLoop(o, q, GBInit(o, 4, p), <<>>)[1]>>

\* MP::Div : the quotient of p by the nonzero q
Div(o, p, q) == DivLoop(o, q, GBInit(o, 4, p), <<>>)

\* the loop of MP::Mult over the monomials of polyRight from the last one
RECURSIVE MultLoop(_, _, _, _, _)
MultLoop(o, p, q, k, b) ==
    IF k = 0 THEN b
    ELSE MultLoop(o, p, q, k - 1, GBSymDiffSplice(o, 3, b, MulMM(o, p, q[k])))

\* MP::Mult, MP::operator*=(const MP&)
Mult(o, p, q) == GBMount(o, MultLoop(o, p, q, Len(q), GBEmpty))

\* the loop of MP::MultClassic
RECURSIVE MultClassicLoop(_, _, _, _, _)
MultClassicLoop(o, polySave, q, k, acc) ==
    IF k = 0 THEN acc
    ELSE MultClassicLoop(o, polySave, q, k - 1,
             SymDiff(o, acc, MulMM(o, polySave, q[k])))

\* MP::MultClassic
MultClassic(o, p, q) == MultClassicLoop(o, p, q, Len(q), <<>>)

\* std::list::insert before the position iter
ListInsert(s, iter, m) ==
    SubSeq(s, 1, iter - 1) \o <<m>> \o SubSeq(s, iter, Len(s))

\* std::list::erase of the position iter
ListErase(s, iter) == SubSeq(s, 1, iter - 1) \o SubSeq(s, iter + 1, Len(s))

\* std::lower_bound(begin(), end(), m, _order): the first position whose
\* monomial is not greater than m, Len(p) + 1 being end()
RECURSIVE MMLowerBound(_, _, _, _)
MMLowerBound(o, p, m, iter) ==
    IF iter > Len(p) THEN iter
    ELSE IF Compare(o, p[iter], m) > 0 THEN MMLowerBound(o, p, m, iter + 1)
    ELSE iter

\* the polynomials erase(end()) can leave: the list as it was or the list
\* without one of its elements
EraseEnd(p) == {p} \cup {ListErase(p, i) : i \in DOMAIN p}

\* MP::Diff(const MM&): erase(iter) when iter != end() || *iter == mRight;
\* g is the monomial read through end() and r the list left by erase(end())
DiffMM(o, p, m, g, r) ==
    IF MMLowerBound(o, p, m, 1) <= Len(p)
    THEN ListErase(p, MMLowerBound(o, p, m, 1))
    ELSE IF g = m THEN r ELSE p

\* the loop of MP::UnionSplice; the lists left in *this and in polyRight
RECURSIVE UnionSpliceLoop(_, _, _, _, _)
UnionSpliceLoop(o, p, iter, q, iterRight) ==
    IF iter <= Len(p) /\ iterRight <= Len(q)
    THEN IF Compare(o, p[iter], q[iterRight]) > 0
         THEN UnionSpliceLoop(o, p, iter + 1, q, iterRight)
         ELSE IF Compare(o, p[iter], q[iterRight]) < 0
         THEN UnionSpliceLoop(o, ListInsert(p, iter, q[iterRight]), iter + 1,
                              ListErase(q, iterRight), iterRight)
         ELSE UnionSpliceLoop(o, p, iter + 1, q, iterRight + 1)
    ELSE IF iter > Len(p)
    THEN [p |-> p \o SubSeq(q, iterRight, Len(q)),
          q |-> SubSeq(q, 1, iterRight - 1)]
    ELSE [p |-> p, q |-> q]

\* MP::UnionSplice
UnionSplice(o, p, q) == UnionSpliceLoop(o, p, 1, q, 1)

\* the loop of MP::SymDiffSplice; the lists left in *this and in polyRight
RECURSIVE SymDiffSpliceLoop(_, _, _, _, _)
SymDiffSpliceLoop(o, p, iter, q, iterRight) ==
    IF iter <= Len(p) /\ iterRight <= Len(q)
    THEN IF Compare(o, p[iter], q[iterRight]) > 0
         THEN SymDiffSpliceLoop(o, p, iter + 1, q, iterRight)
         ELSE IF Compare(o, p[iter], q[iterRight]) < 0
         THEN SymDiffSpliceLoop(o, ListInsert(p, iter, q[iterRight]),
                                iter + 1, ListErase(q, iterRight), iterRight)
         ELSE SymDiffSpliceLoop(o, ListErase(p, iter), iter, q, iterRight + 1)
    ELSE IF iter > Len(p)
    THEN [p |-> p \o SubSeq(q, iterRight, Len(q)),
          q |-> SubSeq(q, 1, iterRight - 1)]
    ELSE [p |-> p, q |-> q]

\* MP::SymDiffSplice
SymDiffSplice(o, p, q) == SymDiffSpliceLoop(o, p, 1, q, 1)

\* the roll back of the NC merges: while (cmp < 0 && iter != begin())
\* cmp = Compare(*--iter, *iterRight)
RECURSIVE NCBack(_, _, _, _, _)
NCBack(o, p, iter, m, cmp) ==
    IF cmp < 0 /\ iter # 1
    THEN NCBack(o, p, iter - 1, m, Compare(o, p[iter - 1], m))
    ELSE [iter |-> iter, cmp |-> cmp]

\* the comparison at the head of the loops of the NC merges
NCCmp(o, p, iter, m) == IF iter > Len(p) THEN -1 ELSE Compare(o, p[iter], m)

\* the loop of MP::UnionNC; back is the position and the comparison after
\* the roll back
RECURSIVE UnionNCLoop(_, _, _, _, _)
RECURSIVE UnionNCStep(_, _, _, _, _)
UnionNCStep(o, p, back, q, iterRight) ==
    IF back.cmp = 0
    THEN UnionNCLoop(o, p, back.iter + 1, q, iterRight + 1)
    ELSE IF back.cmp < 0
    THEN UnionNCLoop(o, ListInsert(p, back.iter, q[iterRight]), back.iter,
                     q, iterRight + 1)
    ELSE UnionNCLoop(o, ListInsert(p, back.iter + 1, q[iterRight]),
                     back.iter + 1, q, iterRight + 1)

UnionNCLoop(o, p, iter, q, iterRight) ==
    IF iterRight > Len(q) THEN p
    ELSE IF NCCmp(o, p, iter, q[iterRight]) > 0
    THEN UnionNCLoop(o, p, iter + 1, q, iterRight)
    ELSE UnionNCStep(o, p,
             NCBack(o, p, iter, q[iterRight], NCCmp(o, p, iter, q[iterRight])),
             q, iterRight)

\* MP::UnionNC
UnionNC(o, p, q) == UnionNCLoop(o, p, 1, q, 1)

\* the loop of MP::DiffNC
RECURSIVE DiffNCLoop(_, _, _, _, _)
RECURSIVE DiffNCStep(_, _, _, _, _)
DiffNCStep(o, p, back, q, iterRight) ==
    IF back.cmp = 0
    THEN DiffNCLoop(o, ListErase(p, back.iter), back.iter, q, iterRight + 1)
    ELSE DiffNCLoop(o, p, back.iter, q, iterRight + 1)

DiffNCLoop(o, p, iter, q, iterRight) ==
    IF iterRight > Len(q) THEN p
    ELSE IF NCCmp(o, p, iter, q[iterRight]) > 0
    THEN DiffNCLoop(o, p, iter + 1, q, iterRight)
    ELSE DiffNCStep(o, p,
             NCBack(o, p, iter, q[iterRight], NCCmp(o, p, iter, q[iterRight])),
             q, iterRight)

\* MP::DiffNC
DiffNC(o, p, q) == DiffNCLoop(o, p, 1, q, 1)

\* the loop of MP::SymDiffNC
RECURSIVE SymDiffNCLoop(_, _, _, _, _)
RECURSIVE SymDiffNCStep(_, _, _, _, _)
SymDiffNCStep(o, p, back, q, iterRight) ==
    IF back.cmp = 0
    THEN SymDiffNCLoop(o, ListErase(p, back.iter), back.iter, q,
                       iterRight + 1)
    ELSE IF back.cmp < 0
    THEN SymDiffNCLoop(o, ListInsert(p, back.iter, q[iterRight]), back.iter,
                       q, iterRight + 1)
    ELSE SymDiffNCLoop(o, ListInsert(p, back.iter + 1, q[iterRight]),
                       back.iter + 1, q, iterRight + 1)

SymDiffNCLoop(o, p, iter, q, iterRight) ==
    IF iterRight > Len(q) THEN p
    ELSE IF NCCmp(o, p, iter, q[iterRight]) > 0
    THEN SymDiffNCLoop(o, p, iter + 1, q, iterRight)
    ELSE SymDiffNCStep(o, p,
             NCBack(o, p, iter, q[iterRight], NCCmp(o, p, iter, q[iterRight])),
             q, iterRight)

\* MP::SymDiffNC
SymDiffNC(o, p, q) == SymDiffNCLoop(o, p, 1, q, 1)

\* MP::operator=(const MP<_n, _O1>&) for a polynomial q in the order o1:
\* the lists of one type are copied, those of another are normalised
Assign(o, o1, q) == IF o1 = o THEN q ELSE Normalize(o, q)

\* the loop of MP::ReplaceClassic over the monomials of p from position iter
RECURSIVE ReplaceClassicLoop(_, _, _, _, _, _)
ReplaceClassicLoop(o, p, iter, pos, poly, polyResult) ==
    IF iter > Len(p) THEN polyResult
    ELSE IF Test(p[iter], pos)
    THEN ReplaceClassicLoop(o, p, iter + 1, pos, poly,
             SymDiffSplice(o, polyResult,
                 MulMM(o, poly, p[iter] \ {pos})).p)
    ELSE ReplaceClassicLoop(o, p, iter + 1, pos, poly,
             SymDiffMM(o, polyResult, p[iter]))

\* MP::ReplaceClassic(pos, polyReplace) with polyReplace in the order o1
ReplaceClassic(o, p, pos, o1, polyReplace) ==
    ReplaceClassicLoop(o, p, 1, pos, Assign(o, o1, polyReplace), <<>>)

\* the loop of MP::Replace(size_t, const MP&) with the buckets gb
RECURSIVE ReplaceLoop(_, _, _, _, _, _)
ReplaceLoop(o, p, iter, pos, poly, gb) ==
    IF iter > Len(p) THEN gb
    ELSE IF Test(p[iter], pos)
    THEN ReplaceLoop(o, p, iter + 1, pos, poly,
             GBSymDiffSplice(o, 3, gb, MulMM(o, poly, p[iter] \ {pos})))
    ELSE ReplaceLoop(o, p, iter + 1, pos, poly, GBSymDiff(o, 3, gb, p[iter]))

\* MP::Replace(pos, polyReplace) with polyReplace in the order o1
Replace(o, p, pos, o1, polyReplace) ==
    GBMount(o, ReplaceLoop(o, p, 1, pos, Assign(o, o1, polyReplace), GBEmpty))

\* MP::Replace(pos, posNew)
ReplaceVar(o, p, pos, posNew) ==
    IF pos = posNew THEN p
    ELSE Normalize(o, [k \in DOMAIN p |->
             IF Test(p[k], pos) THEN (p[k] \ {pos}) \cup {posNew} ELSE p[k]])

(***************************************************************************)
(* MI (Ideal) : list management                                            *)
(***************************************************************************)
\* std::lower_bound(first, last, p) with MP::operator<; the range is
\* [first, first + len) and the result the first position not less than p
RECURSIVE LowerBound(_, _, _, _, _)
LowerBound(o, I, first, len, p) ==
    IF len <= 0 THEN first
    ELSE LET half == len \div 2
             middle == first + half
         IN IF MPLess(o, I[middle], p)
            THEN LowerBound(o, I, middle + 1, len - half - 1, p)
            ELSE LowerBound(o, I, first, half, p)

\* Ideal::Find : is p in the list, and where p can be inserted
Find(o, I, p) ==
    LET pos == LowerBound(o, I, 1, Len(I), p) IN
    [found |-> pos <= Len(I) /\ I[pos] = p, pos |-> pos]

\* Ideal::IsContain
IsContain(o, I, p) == Find(o, I, p).found

\* std::list::insert before position pos
InsertAt(I, pos, p) == SubSeq(I, 1, pos - 1) \o <<p>> \o SubSeq(I, pos, Len(I))

\* Ideal::RemoveAt
RemoveAt(I, pos) == SubSeq(I, 1, pos - 1) \o SubSeq(I, pos + 1, Len(I))

\* Ideal::Insert(const MP&)
Insert(o, I, p) ==
    LET f == Find(o, I, p) IN IF f.found THEN I ELSE InsertAt(I, f.pos, p)

\* Ideal::Insert(const Ideal&), Ideal::operator=(const Ideal&)
RECURSIVE InsertAll(_, _, _)
InsertAll(o, I, J) ==
    IF J = <<>> THEN I ELSE InsertAll(o, Insert(o, I, J[1]), Tail(J))

\* Ideal::IsNormalized
MIIsNormalized(o, I) ==
    IF I = <<>> THEN TRUE
    ELSE IF I[1] = <<>> THEN FALSE
    ELSE \A i \in 1 .. (Len(I) - 1) : MPCompare(o, I[i], I[i + 1]) < 0

\* Ideal::Move : where the polynomial at position pos goes; the result is
\* the new list and the new position of the polynomial
Move(o, I, pos) ==
    LET where == LowerBound(o, I, 1, pos - 1, I[pos])
        where2 == LowerBound(o, I, pos + 1, Len(I) - pos, I[pos])
    IN IF where # pos
       THEN [I |-> InsertAt(RemoveAt(I, pos), where, I[pos]), at |-> where]
       ELSE IF where2 # pos + 1
       THEN [I |-> InsertAt(RemoveAt(I, pos), where2 - 1, I[pos]),
             at |-> where2 - 1]
       ELSE [I |-> I, at |-> pos]

\* Ideal::GatherVars
GatherVars(I) ==
    UNION {UNION {I[i][k] : k \in DOMAIN I[i]} : i \in DOMAIN I}

(***************************************************************************)
(* MI (Ideal) : reduction                                                  *)
(***************************************************************************)
\* the inner for loop of Reduce / ReduceClassic: the first polynomial from
\* position k on, other than the one at position skip, whose leading
\* monomial divides lm; 0 when the loop leaves with iterPoly == end()
RECURSIVE FindDivisor(_, _, _, _, _)
FindDivisor(o, I, lm, k, skip) ==
    IF k > Len(I) THEN 0
    ELSE IF k = skip THEN FindDivisor(o, I, lm, k + 1, skip)
    ELSE IF Compare(o, LM(I[k]), lm) > 0 THEN 0
    ELSE IF IsDivide(LM(I[k]), lm) THEN k
    ELSE FindDivisor(o, I, lm, k + 1, skip)

\* the division loop of Ideal::Reduce (both overloads)
RECURSIVE ReduceLoop(_, _, _, _, _, _)
ReduceLoop(o, I, skip, b, rem, changed) ==
    LET r == GBPopLM(o, b) IN
    IF ~r.ok THEN [p |-> rem, changed |-> changed]
    ELSE LET k == FindDivisor(o, I, r.lm, 1, skip) IN
         IF k # 0
         THEN ReduceLoop(o, I, skip,
                  GBSymDiffSplice(o, 2, r.b,
                      MulMM(o, PopLM(I[k]), MMDiv(r.lm, LM(I[k])))),
                  rem, TRUE)
         ELSE ReduceLoop(o, I, skip, r.b, Append(rem, r.lm), changed)

\* Ideal::Reduce(MP&) : the normal form of p and the flag returned
ReduceFlag(o, I, p) == ReduceLoop(o, I, 0, GBInit(o, 2, p), <<>>, FALSE)

\* Reduce that never divides by the first member of I
ReduceSkipFirst(o, I, p) ==
    ReduceLoop(o, I, 1, GBInit(o, 2, p), <<>>, FALSE).p

Reduce(o, I, p) == ReduceFlag(o, I, p).p

\* Ideal::Reduce(iterator pos) : the normal form of the member at pos modulo
\* the other members
ReduceAt(o, I, pos) == ReduceLoop(o, I, pos, GBInit(o, 2, I[pos]), <<>>, FALSE)

\* the while loop of Ideal::ReduceClassic; iterMon is the position in p
RECURSIVE ReduceClassicLoop(_, _, _, _)
ReduceClassicLoop(o, I, p, iterMon) ==
    IF iterMon > Len(p) THEN p
    ELSE LET k == FindDivisor(o, I, p[iterMon], 1, 0) IN
         IF k # 0
         THEN ReduceClassicLoop(o, I,
                  SymDiff(o, p, MulMM(o, I[k], MMDiv(p[iterMon], LM(I[k])))), 1)
         ELSE ReduceClassicLoop(o, I, p, iterMon + 1)

\* ReduceClassic that starts at the second monomial of p
ReduceClassicSecond(o, I, p) == ReduceClassicLoop(o, I, p, 2)

\* Ideal::ReduceClassic(MP&)
ReduceClassic(o, I, p) == ReduceClassicLoop(o, I, p, 1)

\* the body of the for loop with every member that Reduce changed erased,
\* whether it became zero or not
SelfReduceStepErase(o, I, k, changed, r) ==
    IF ~r.changed THEN [I |-> I, pos |-> k, changed |-> changed]
    ELSE [I |-> RemoveAt(I, k), pos |-> k, changed |-> TRUE]

\* the body of the for loop of Ideal::SelfReduce for the member at position
\* k, after Reduce(pos) has returned r: the list, the iterator and the flag
SelfReduceStep(o, I, k, changed, r) ==
    IF ~r.changed THEN [I |-> I, pos |-> k, changed |-> changed]
    ELSE IF r.p = <<>>
    THEN [I |-> RemoveAt(I, k), pos |-> k, changed |-> TRUE]
    ELSE LET mv == Move(o, [I EXCEPT ![k] = r.p], k)
         IN [I |-> mv.I, pos |-> IF mv.at > k THEN k ELSE k + 1,
             changed |-> TRUE]

\* one pass of the for loop of Ideal::SelfReduce; s.pos is the iterator
\* (Len(s.I) + 1 is end())
RECURSIVE SelfReducePass(_, _)
SelfReducePass(o, s) ==
    IF s.pos = 1 THEN s
    ELSE SelfReducePass(o,
             SelfReduceStep(o, s.I, s.pos - 1, s.changed,
                 ReduceAt(o, s.I, s.pos - 1)))

\* Ideal::SelfReduce; SelfReduceWhile is the condition of its do-while
\* loop, s being the state after one pass
RECURSIVE SelfReduce(_, _)
SelfReduceWhile(o, s) == IF s.changed THEN SelfReduce(o, s.I) ELSE s.I

SelfReduce(o, I) ==
    SelfReduceWhile(o,
        SelfReducePass(o, [I |-> I, pos |-> Len(I) + 1, changed |-> FALSE]))

\* IsGB without the pairs with the field equations
IsGBMembers(o, I) ==
    \A k \in DOMAIN I : \A k1 \in 1 .. (k - 1) :
        ~IsRelPrime(LM(I[k]), LM(I[k1]))
            => Reduce(o, I, SPoly(o, I[k], I[k1])) = <<>>

\* Ideal::IsGB
IsGB(o, I) ==
    /\ \A k \in DOMAIN I : \A i \in Vars :
          Test(LM(I[k]), i) => Reduce(o, I, SPolyVar(o, i, I[k])) = <<>>
    /\ \A k \in DOMAIN I : \A k1 \in 1 .. (k - 1) :
          ~IsRelPrime(LM(I[k]), LM(I[k1]))
              => Reduce(o, I, SPoly(o, I[k], I[k1])) = <<>>

(***************************************************************************)
(* MI: the quotient ring.                                                  *)
(***************************************************************************)
\* Ideal::GatherLMons
RECURSIVE GatherLMonsFrom(_, _, _, _)
GatherLMonsFrom(o, I, k, polyMons) ==
    IF k > Len(I) THEN polyMons
    ELSE GatherLMonsFrom(o, I, k + 1, UnionMM(o, polyMons, LM(I[k])))

GatherLMons(o, I) == GatherLMonsFrom(o, I, 1, <<>>)

\* the loop of Ideal::GatherMinLMons
RECURSIVE MinLMonsLoop(_, _)
MinLMonsLoop(polyMons, iter) ==
    IF iter > Len(polyMons) THEN polyMons
    ELSE IF \E iter1 \in (iter + 1) .. Len(polyMons) :
                IsDivide(polyMons[iter1], polyMons[iter])
    THEN MinLMonsLoop(RemoveAt(polyMons, iter), iter)
    ELSE MinLMonsLoop(polyMons, iter + 1)

\* Ideal::GatherMinLMons
GatherMinLMons(o, I) == MinLMonsLoop(GatherLMons(o, I), 1)

\* Ideal::QuotientBasis: the loop over tosee
RECURSIVE QuotientBasisLoop(_, _, _, _, _)
QuotientBasisLoop(o, vars, mons, tosee, polyQB) ==
    IF tosee = <<>> THEN polyQB
    ELSE LET mon == tosee[Len(tosee)]
             rest == SubSeq(tosee, 1, Len(tosee) - 1)
         IN IF (\A k \in DOMAIN mons : ~IsDivide(mons[k], mon))
               /\ ~IsContainMM(polyQB, mon)
            THEN LET RECURSIVE Mul(_, _)
                     Mul(cur, ts) ==
                         IF cur >= N THEN ts
                         ELSE IF Test(vars, cur) /\ ~Test(mon, cur)
                         THEN Mul(cur + 1, UnionMM(o, ts, mon \cup {cur}))
                         ELSE Mul(cur + 1, ts)
                 IN QuotientBasisLoop(o, vars, mons, Mul(0, rest),
                        UnionMM(o, polyQB, mon))
            ELSE QuotientBasisLoop(o, vars, mons, rest, polyQB)

\* QuotientBasis over all the variables, essential or not
QuotientBasisAllVars(o, I) ==
    IF I = <<>> THEN <<>>
    ELSE IF Deg(GatherVars(I)) = 0 THEN <<>>
    ELSE QuotientBasisLoop(o, Vars, GatherMinLMons(o, I), <<{}>>, <<>>)

\* Ideal::QuotientBasis: the polynomial polyQB
QuotientBasis(o, I) ==
    IF I = <<>> THEN <<>>
    ELSE IF Deg(GatherVars(I)) = 0 THEN <<>>
    ELSE QuotientBasisLoop(o, GatherVars(I), GatherMinLMons(o, I), <<{}>>, <<>>)

\* ZZ<_n>(1).Shr(shift)
ZZShr(shift) == IF shift < N THEN Pow2(shift) ELSE 0

\* ZZ<_n>::operator+=
ZZAdd(z1, z2) == (z1 + z2) % Pow2(N)

\* ZZ<_n>::operator-
ZZSub(z1, z2) == (z1 + Pow2(N) - z2) % Pow2(N)

\* the equation picked by Ideal::QuotientBasisDim: the last one of weight 1,
\* the first one if there is none
PickEquation(mons) ==
    IF \E k \in DOMAIN mons : Deg(mons[k]) = 1
    THEN CHOOSE k \in DOMAIN mons :
             /\ Deg(mons[k]) = 1
             /\ \A j \in DOMAIN mons : Deg(mons[j]) = 1 => j <= k
    ELSE 1

\* the variable picked by Ideal::QuotientBasisDim
PickVar(m) == CHOOSE var \in m : \A v \in m : var <= v

\* the monomials with var, var removed, joined to mons
RECURSIVE ReturnMons(_, _, _, _, _)
ReturnMons(o, second, var, k, mons) ==
    IF k > Len(second) THEN mons
    ELSE IF Test(second[k], var)
    THEN ReturnMons(o, second, var, k + 1, UnionMM(o, mons, second[k] \ {var}))
    ELSE ReturnMons(o, second, var, k + 1, mons)

\* Ideal::QuotientBasisDim: the contribution of the pair (first, second)
RECURSIVE DimOfPair(_, _, _)
DimOfPair(o, first, second) ==
    IF second = <<>> THEN ZZShr(Deg(first))
    ELSE IF Len(second) = 1
    THEN ZZSub(ZZShr(Deg(first)), ZZShr(Deg(first) - Deg(LM(second))))
    ELSE LET iter == PickEquation(second)
             var == PickVar(second[iter])
             vars == first \ {var}
             mons == MPSet(o, second, var, 0)
         IN IF Deg(second[iter]) > 1
            THEN ZZAdd(DimOfPair(o, vars, mons),
                       DimOfPair(o, vars, ReturnMons(o, second, var, 1, mons)))
            ELSE DimOfPair(o, vars, mons)

\* Ideal::QuotientBasisDim
QuotientBasisDim(o, I) ==
    IF I = <<>> THEN 0
    ELSE IF GatherMinLMons(o, I) = <<{}>> THEN 0
    ELSE DimOfPair(o, GatherVars(I), GatherMinLMons(o, I))

(***************************************************************************)
(* CritPair.  An iterator into _basis or _reserve is the number of the     *)
(* list node it points to; mem[id] is the polynomial held by node id.      *)
(***************************************************************************)
\* SIZE_MAX in var1: the first polynomial is explicit
NoVar == -1

\* CritPair(iterator i1, iterator i2)
CritPairPoly(mem, i1, i2) ==
    [var1 |-> NoVar, iter1 |-> i1, lm1 |-> LM(mem[i1]),
     iter2 |-> i2, lm2 |-> LM(mem[i2]),
     lcm |-> LCM(LM(mem[i1]), LM(mem[i2]))]

\* CritPair(size_t i, iterator i2)
CritPairVar(mem, i, i2) ==
    [var1 |-> i, iter1 |-> 0, lm1 |-> {i},
     iter2 |-> i2, lm2 |-> LM(mem[i2]),
     lcm |-> LCM({i}, LM(mem[i2]))]

\* CritPair::operator==
CPEq(cp, cpRight) == cp.var1 = cpRight.var1 /\ cp.lcm = cpRight.lcm

\* CritPair::operator!=
CPNe(cp, cpRight) == cp.var1 # cpRight.var1 \/ cp.lcm # cpRight.lcm

\* CritPair::operator|
CPDivides(cp, cpRight) ==
    (cp.var1 = cpRight.var1 \/ cp.var1 = NoVar) /\ IsDivide(cp.lcm, cpRight.lcm)

\* CritPair::IsRelPrime
CPIsRelPrime(cp) ==
    IF cp.var1 # NoVar THEN ~Test(cp.lm2, cp.var1)
    ELSE GCD(cp.lm1, cp.lm2) = {}

\* CritPair::IsRPair
CPIsRPair(cp) == IsDivide(cp.lm2, cp.lm1)

\* CritPair::operator<
CPLess(o, cp, cpRight) == Compare(o, cp.lcm, cpRight.lcm) < 0

\* GetSPoly that takes the pairs with the field equations for trivial
GetSPolyMembers(o, mem, cp) ==
    IF cp.var1 = NoVar THEN SPoly(o, mem[cp.iter2], mem[cp.iter1])
    ELSE <<>>

\* CritPair::GetSPoly
GetSPoly(o, mem, cp) ==
    IF cp.var1 = NoVar THEN SPoly(o, mem[cp.iter2], mem[cp.iter1])
    ELSE LET spoly == SPolyVar(o, cp.var1, mem[cp.iter2]) IN
         IF spoly # <<>> /\ LM(spoly) = LM(mem[cp.iter2])
         THEN SymDiff(o, spoly, mem[cp.iter2])
         ELSE spoly

\* a merge that appends the argument to the list
CPConcat(o, s, t) == s \o t

\* std::list<_CP>::merge : the elements of the argument go after the equal
\* elements of the list
RECURSIVE CPMerge(_, _, _)
CPMerge(o, s, t) ==
    IF t = <<>> THEN s
    ELSE IF s = <<>> THEN t
    ELSE IF CPLess(o, t[1], s[1]) THEN <<t[1]>> \o CPMerge(o, s, Tail(t))
    ELSE <<s[1]>> \o CPMerge(o, Tail(s), t)

\* std::list<_CP>::sort : stable, increasing lcm
RECURSIVE CPSort(_, _)
CPSort(o, s) ==
    IF Len(s) < 2 THEN s
    ELSE LET h == Len(s) \div 2 IN
         CPMerge(o, CPSort(o, SubSeq(s, 1, h)), CPSort(o, SubSeq(s, h + 1, Len(s))))

(***************************************************************************)
(* Buchb.  The engine state is the record E:                               *)
(*   mem      the polynomials of the list nodes ever created               *)
(*   basis    _basis, the nodes of the list in list order                  *)
(*   reserve  _reserve, likewise                                           *)
(*   pairs    _pairs                                                       *)
(*   done     _pairs_processed                                             *)
(*   stat     _stat                                                        *)
(***************************************************************************)
\* the polynomials of a list of nodes
ListPolys(mem, ids) == [k \in DOMAIN ids |-> mem[ids[k]]]

\* criterion A applied to the r-pairs as well
CriterionAAll(E, g) ==
    LET hit(cp) == IsDivide(LM(E.mem[g]), cp.lcm)
        kept == SelectSeq(E.pairs, LAMBDA cp : ~hit(cp))
    IN [E EXCEPT !.pairs = kept,
                 !.stat.a_criterion = @ + (Len(E.pairs) - Len(kept))]

\* a first loop that erases no pair
CriterionANone(E, g) == E

\* criterion A, the first loop of Buchb::_Update
CriterionA(E, g) ==
    LET hit(cp) == IsDivide(LM(E.mem[g]), cp.lcm) /\ ~CPIsRPair(cp)
        kept == SelectSeq(E.pairs, LAMBDA cp : ~hit(cp))
    IN [E EXCEPT !.pairs = kept,
                 !.stat.a_criterion = @ + (Len(E.pairs) - Len(kept))]

\* the loop over the basis with a Splice that erases the polynomial instead
\* of moving it to the reserve
RECURSIVE RCriterionErase(_, _, _, _, _)
RCriterionErase(o, E, g, k, newpairs) ==
    IF k > Len(E.basis) THEN [E |-> E, newpairs |-> newpairs]
    ELSE LET id == E.basis[k] IN
         IF id = g THEN RCriterionErase(o, E, g, k + 1, newpairs)
         ELSE IF IsDivide(LM(E.mem[g]), LM(E.mem[id]))
         THEN RCriterionErase(o,
                  [E EXCEPT !.basis = RemoveAt(@, k),
                            !.stat.r_criterion = @ + 1],
                  g, k, <<CritPairPoly(E.mem, id, g)>> \o newpairs)
         ELSE RCriterionErase(o,
                  [E EXCEPT !.mem[id] = Mod(o, @, E.mem[g])],
                  g, k + 1, newpairs)

\* the loop over the basis that leaves the basis as it is
RCriterionNone(o, E, g, k, newpairs) == [E |-> E, newpairs |-> newpairs]

\* the loop over the basis that moves the polynomials with LM(g) | LM(f) to
\* the reserve (Ideal::Splice) and replaces the others by f mod g
RECURSIVE RCriterion(_, _, _, _, _)
RCriterion(o, E, g, k, newpairs) ==
    IF k > Len(E.basis) THEN [E |-> E, newpairs |-> newpairs]
    ELSE LET id == E.basis[k] IN
         IF id = g THEN RCriterion(o, E, g, k + 1, newpairs)
         ELSE IF IsDivide(LM(E.mem[g]), LM(E.mem[id]))
         THEN LET f == Find(o, ListPolys(E.mem, E.reserve), E.mem[id])
                  posReserve == IF f.found THEN E.reserve[f.pos] ELSE id
                  E1 == [E EXCEPT
                            !.basis = RemoveAt(@, k),
                            !.reserve = IF f.found THEN @
                                        ELSE InsertAt(@, f.pos, id),
                            !.stat.r_criterion = @ + 1]
              IN RCriterion(o, E1, g, k,
                     <<CritPairPoly(E.mem, posReserve, g)>> \o newpairs)
         ELSE RCriterion(o,
                  [E EXCEPT !.mem[id] = Mod(o, @, E.mem[g])],
                  g, k + 1, newpairs)

\* the pairs (x_var^2 - x_var, g) with x_var in LM(g), pushed to the front
RECURSIVE FieldPairs(_, _, _, _)
FieldPairs(mem, g, var, newpairs) ==
    IF var >= N THEN newpairs
    ELSE FieldPairs(mem, g, var + 1,
             IF Test(LM(mem[g]), var)
             THEN <<CritPairVar(mem, var, g)>> \o newpairs
             ELSE newpairs)

\* the condition shared by criteria B and C
BCCond(lmg, lmf, cp) == ~IsDivide(lmg, LCM(cp.lm1, lmf))

\* the first loop over newpairs for the pair newpair = (f, g): is newpair
\* excluded by B or C, and which pairs does it exclude by C
RECURSIVE CriteriaBC(_, _, _, _, _, _)
CriteriaBC(lmg, lmf, newpair, newpairs, pos, stat) ==
    IF pos > Len(newpairs)
    THEN [excluded |-> FALSE, newpairs |-> newpairs, stat |-> stat]
    ELSE IF CPDivides(newpairs[pos], newpair) /\ BCCond(lmg, lmf, newpairs[pos])
    THEN IF CPNe(newpairs[pos], newpair)
         THEN [excluded |-> TRUE, newpairs |-> newpairs,
               stat |-> [stat EXCEPT !.b_criterion = @ + 1]]
         ELSE IF CPIsRelPrime(newpairs[pos]) \/ ~CPIsRelPrime(newpair)
         THEN [excluded |-> TRUE, newpairs |-> newpairs,
               stat |-> [stat EXCEPT !.c_criterion = @ + 1]]
         ELSE CriteriaBC(lmg, lmf, newpair, RemoveAt(newpairs, pos), pos,
                  [stat EXCEPT !.c_criterion = @ + 1])
    ELSE CriteriaBC(lmg, lmf, newpair, newpairs, pos + 1, stat)

\* the second loop over newpairs: the pairs that newpair excludes by B
CriterionB(lmg, lmf, newpair, newpairs) ==
    SelectSeq(newpairs, LAMBDA cp :
        ~(CPDivides(newpair, cp) /\ CPNe(newpair, cp) /\ BCCond(lmg, lmf, cp)))

\* the loop over the basis that builds the pairs (f, g)
RECURSIVE NewPairs(_, _, _, _, _)
NewPairs(E, g, k, newpairs, stat) ==
    IF k > Len(E.basis) THEN [newpairs |-> newpairs, stat |-> stat]
    ELSE IF E.basis[k] = g THEN NewPairs(E, g, k + 1, newpairs, stat)
    ELSE LET lmg == LM(E.mem[g])
             lmf == LM(E.mem[E.basis[k]])
             newpair == CritPairPoly(E.mem, E.basis[k], g)
             r == CriteriaBC(lmg, lmf, newpair, newpairs, 1, stat)
             kept == CriterionB(lmg, lmf, newpair, r.newpairs)
         IN IF r.excluded
            THEN NewPairs(E, g, k + 1, r.newpairs, r.stat)
            ELSE NewPairs(E, g, k + 1, Append(kept, newpair),
                     [r.stat EXCEPT
                         !.b_criterion = @ + (Len(r.newpairs) - Len(kept))])

\* Buchb::_Update, its end: the new pairs that pass the first criterion
\* are sorted and merged into _pairs
FirstCriterion(o, E, np) ==
    [E EXCEPT
        !.pairs = CPMerge(o, @,
            CPSort(o, SelectSeq(np.newpairs, LAMBDA cp : ~CPIsRelPrime(cp)))),
        !.stat = [np.stat EXCEPT !.buch_criterion =
            @ + Len(SelectSeq(np.newpairs, LAMBDA cp : CPIsRelPrime(cp)))]]

\* an _Update that drops the r-pairs instead of merging them into _pairs
MergeRPairsNone(o, r) == r.E

\* Buchb::_Update, the loop over the basis done: the r-pairs are sorted and
\* merged into _pairs
MergeRPairs(o, r) ==
    [r.E EXCEPT !.pairs = CPMerge(o, @, CPSort(o, r.newpairs))]

\* Buchb::_Update from the pairs with the field equations on
_UpdateNewPairs(o, E, g) ==
    FirstCriterion(o, E,
        NewPairs(E, g, 1, FieldPairs(E.mem, g, 0, <<>>), E.stat))

\* Buchb::_Update(posPoly), g being the node posPoly points to
_Update(o, E0, g) ==
    _UpdateNewPairs(o,
        MergeRPairs(o, RCriterion(o, CriterionA(E0, g), g, 1, <<>>)), g)

\* MP::Deg
MPDeg(p) ==
    IF p = <<>> THEN -1
    ELSE CHOOSE d \in 0 .. N :
             /\ \E k \in DOMAIN p : Deg(p[k]) = d
             /\ \A k \in DOMAIN p : Deg(p[k]) <= d

(***************************************************************************)
(* The engine as a state machine.                                          *)
(***************************************************************************)
VARIABLES
    order,              \* the monomial order _O of the session
    hooks,              \* the hooks ValidatePre and Validate of the session
    mem,                \* the polynomials of the list nodes
    _basis,             \* Buchb::_basis
    _reserve,           \* Buchb::_reserve
    _pairs,             \* Buchb::_pairs
    _pairs_processed,   \* Buchb::_pairs_processed
    _stat,              \* Buchb::_stat
    pc,                 \* "idle", or "process" inside the loop of Process()
    last,               \* the engine call that returned last
    inputs,             \* the polynomials passed to Update() since Init()
    updates,            \* the number of Update() calls so far
    out,                \* the ideal filled by Done()
    call                \* a call of a method of MI: arguments and result

vars == <<order, hooks, mem, _basis, _reserve, _pairs, _pairs_processed,
          _stat, pc, last, inputs, updates, out, call>>

\* the hooks of Buchb itself: both return true
DefaultHooks == [derived |-> FALSE, pre |-> 0, post |-> 0]

\* Buchb::ValidatePre : the default hook, or the hook of a derived class that
\* rejects the polynomials of a degree above hooks.pre
ValidatePre(poly) == IF hooks.derived THEN MPDeg(poly) <= hooks.pre ELSE TRUE

\* Buchb::Validate : the default hook, or the hook of a derived class that
\* rejects the polynomials of a degree above hooks.post
Validate(poly) == IF hooks.derived THEN MPDeg(poly) <= hooks.post ELSE TRUE

\* the zeroed _stat
ZeroStat ==
    [pairs_processed |-> 0, reduction_to_zero |-> 0, max_deg |-> 0,
     a_criterion |-> 0, b_criterion |-> 0, c_criterion |-> 0,
     buch_criterion |-> 0, r_criterion |-> 0]

\* _basis.Insert(poly) inside the engine: the node that holds poly and its
\* position in the list
BasisInsert(o, E, poly) ==
    LET f == Find(o, ListPolys(E.mem, E.basis), poly) IN
    IF f.found THEN [E |-> E, pos |-> E.basis[f.pos], at |-> f.pos]
    ELSE [E |-> [E EXCEPT !.mem = Append(@, poly),
                          !.basis = InsertAt(@, f.pos, Len(E.mem) + 1)],
          pos |-> Len(E.mem) + 1, at |-> f.pos]

\* _Update(_basis.Insert(poly)), ins being what Insert returned
_UpdateAt(o, ins) == _Update(o, ins.E, ins.pos)

\* Update(const MP&) that leaves the reduced polynomial where Insert put it
UpdateReducedNoMove(o, ins, r) ==
    LET E1 == [ins.E EXCEPT !.mem[ins.pos] = r.p] IN
    IF r.p # <<>> /\ Validate(r.p) THEN _Update(o, E1, ins.pos)
    ELSE [E1 EXCEPT !.basis = RemoveAt(@, ins.at)]

\* Buchb::Update(const MP&) after _basis.Reduce(pos) has left r in the node
UpdateReduced(o, ins, r) ==
    LET E1 == [ins.E EXCEPT !.mem[ins.pos] = r.p] IN
    IF r.p # <<>> /\ Validate(r.p)
    THEN LET mv == Move(o, ListPolys(E1.mem, E1.basis), ins.at)
         IN _Update(o,
                [E1 EXCEPT !.basis =
                    InsertAt(RemoveAt(@, ins.at), mv.at, ins.pos)],
                ins.pos)
    ELSE [E1 EXCEPT !.basis = RemoveAt(@, ins.at)]

\* Buchb::Update(const MP&) after _basis.Insert(poly) has returned ins
UpdateInserted(o, ins) ==
    UpdateReduced(o, ins,
        ReduceAt(o, ListPolys(ins.E.mem, ins.E.basis), ins.at))

\* Buchb::Update(const MP&)
UpdatePoly(o, E, poly) ==
    IF poly # <<>> /\ ~IsContain(o, ListPolys(E.mem, E.basis), poly)
       /\ ValidatePre(poly)
    THEN UpdateInserted(o, BasisInsert(o, E, poly))
    ELSE E

\* the body of the loop of Buchb::Update(const MI&) after _basis.Reduce(poly)
UpdateNormalForm(o, E, poly) ==
    IF poly # <<>> /\ Validate(poly)
    THEN _UpdateAt(o, BasisInsert(o, E, poly))
    ELSE E

\* the loop of Buchb::Update(const MI&) over the self-reduced polys
RECURSIVE UpdateLoop(_, _, _)
UpdateLoop(o, E, polys) ==
    IF polys = <<>> THEN E
    ELSE IF ~ValidatePre(polys[1]) THEN UpdateLoop(o, E, Tail(polys))
    ELSE UpdateLoop(o,
             UpdateNormalForm(o, E,
                 Reduce(o, ListPolys(E.mem, E.basis), polys[1])),
             Tail(polys))

\* Buchb::Update(const MI&)
UpdateIdeal(o, E, ideal) ==
    UpdateLoop(o, E, SelfReduce(o, InsertAll(o, <<>>, ideal)))

\* the body of the loop of Buchb::Process after _basis.Reduce(poly), E1 being
\* the engine with the pair taken off _pairs
ProcessNormalForm(o, E1, poly) ==
    IF poly = <<>> THEN [E1 EXCEPT !.stat.reduction_to_zero = @ + 1]
    ELSE IF Validate(poly)
    THEN [_UpdateAt(o, BasisInsert(o, E1, poly)) EXCEPT !.stat.max_deg =
             IF MPDeg(poly) > @ THEN MPDeg(poly) ELSE @]
    ELSE E1

\* the splice of the first pair to _pairs_processed and the sort of _pairs
TakePair(o, E) ==
    [E EXCEPT !.stat.pairs_processed = @ + 1,
              !.done = Append(@, E.pairs[1]),
              !.pairs = CPSort(o, Tail(@))]

\* one iteration of the loop without the splice: the first pair is copied
\* to _pairs_processed and stays in _pairs
ProcessPairKeep(o, E, spoly) ==
    IF spoly = <<>> \/ ~ValidatePre(spoly)
    THEN [TakePair(o, E) EXCEPT !.pairs = CPSort(o, E.pairs)]
    ELSE ProcessNormalForm(o,
             [TakePair(o, E) EXCEPT !.pairs = CPSort(o, E.pairs)],
             Reduce(o, ListPolys(E.mem, E.basis), spoly))

\* one iteration of the loop that counts a skipped S-polynomial as one
\* reduced to zero
ProcessPairZero(o, E, spoly) ==
    IF spoly = <<>> \/ ~ValidatePre(spoly)
    THEN [TakePair(o, E) EXCEPT !.stat.reduction_to_zero = @ + 1]
    ELSE ProcessNormalForm(o, TakePair(o, E),
             Reduce(o, ListPolys(E.mem, E.basis), spoly))

\* one iteration of the loop of Buchb::Process, spoly being the S-polynomial
\* of the first pair
ProcessPair(o, E, spoly) ==
    IF spoly = <<>> \/ ~ValidatePre(spoly) THEN TakePair(o, E)
    ELSE ProcessNormalForm(o, TakePair(o, E),
             Reduce(o, ListPolys(E.mem, E.basis), spoly))

\* the polynomial with the monomials of the set S
RECURSIVE Poly(_, _)
Poly(o, S) ==
    IF S = {} THEN <<>>
    ELSE LET m == CHOOSE m1 \in S : \A m2 \in S : Compare(o, m1, m2) >= 0
         IN <<m>> \o Poly(o, S \ {m})

\* the ideal with the polynomials of the set SS
IdealOf(o, SS) ==
    LET RECURSIVE Ins(_, _)
        Ins(I, T) == IF T = {} THEN I
                     ELSE LET S == CHOOSE S1 \in T : TRUE
                          IN Ins(Insert(o, I, Poly(o, S)), T \ {S})
    IN Ins(<<>>, SS)

\* the polynomials passed to Update(const MP&), as sets of monomials:
\* x0x1x2 + x2 + x1, x0x3 + x0x2, x0x1, x0x3 + x1x2, x1 + x0, x0x1 + 1, 1
UpdatePolys ==
    {{{0, 1, 2}, {2}, {1}}, {{0, 3}, {0, 2}}, {{0, 1}}, {{0, 3}, {1, 2}},
     {{1}, {0}}, {{0, 1}, {}}, {{}}}

\* the systems passed to Update(const MI&):
\* {x1, x1 + x0}, {x0x1 + x2, x1x2 + x0}
UpdateIdeals ==
    {{{{1}}, {{1}, {0}}}, {{{0, 1}, {2}}, {{1, 2}, {0}}}}

\* the engine fields as one record
Engine ==
    [mem |-> mem, basis |-> _basis, reserve |-> _reserve,
     pairs |-> _pairs, done |-> _pairs_processed, stat |-> _stat]

\* the engine fields after a step
Store(E) ==
    /\ mem' = E.mem
    /\ _basis' = E.basis
    /\ _reserve' = E.reserve
    /\ _pairs' = E.pairs
    /\ _pairs_processed' = E.done
    /\ _stat' = E.stat

NoOut == [called |-> FALSE, ideal |-> <<>>]
\* the result of a method of MI: the polynomial, ideal, flag or number it
\* returns, the other fields keeping these values
NoResult == [poly |-> <<>>, ideal |-> <<>>, flag |-> FALSE, dim |-> 0]

\* no method of MI has been called
NoCall == [op |-> "none", I |-> <<>>, p |-> <<>>, out |-> NoResult]

\* Buchb::Buchb()
Init ==
    /\ order \in Orders
    /\ hooks = DefaultHooks
    /\ mem = <<>>
    /\ _basis = <<>>
    /\ _reserve = <<>>
    /\ _pairs = <<>>
    /\ _pairs_processed = <<>>
    /\ _stat = ZeroStat
    /\ pc = "idle"
    /\ last = "Buchb"
    /\ inputs = {}
    /\ updates = 0
    /\ out = NoOut
    /\ call = NoCall

\* Buchb::Init()
InitCall ==
    /\ pc = "idle"
    /\ last # "Init"
    /\ mem' = <<>>
    /\ _basis' = <<>>
    /\ _reserve' = <<>>
    /\ _pairs' = <<>>
    /\ _pairs_processed' = <<>>
    /\ _stat' = ZeroStat
    /\ last' = "Init"
    /\ inputs' = {}
    /\ out' = NoOut
    /\ call' = NoCall
    /\ UNCHANGED <<order, hooks, pc, updates>>

\* Buchb::Update(const MP&)
UpdatePolyCall ==
    /\ pc = "idle"
    /\ updates < MaxUpdates
    /\ \E S \in UpdatePolys :
          /\ Store(UpdatePoly(order, Engine, Poly(order, S)))
          /\ inputs' = inputs \cup {Poly(order, S)}
    /\ updates' = updates + 1
    /\ last' = "Update"
    /\ out' = NoOut
    /\ call' = NoCall
    /\ UNCHANGED <<order, hooks, pc>>

\* Buchb::Update(const MI&)
UpdateIdealCall ==
    /\ pc = "idle"
    /\ updates < MaxUpdates
    /\ \E SS \in UpdateIdeals :
          /\ Store(UpdateIdeal(order, Engine, IdealOf(order, SS)))
          /\ inputs' = inputs \cup {Poly(order, S) : S \in SS}
    /\ updates' = updates + 1
    /\ last' = "Update"
    /\ out' = NoOut
    /\ call' = NoCall
    /\ UNCHANGED <<order, hooks, pc>>

\* Buchb::Process(): entering the loop
ProcessCall ==
    /\ pc = "idle"
    /\ pc' = "process"
    /\ out' = NoOut
    /\ call' = NoCall
    /\ UNCHANGED <<order, hooks, mem, _basis, _reserve, _pairs, _pairs_processed,
                   _stat, last, inputs, updates>>

\* the nodes of _basis and _reserve
Live == {_basis[k] : k \in DOMAIN _basis} \cup {_reserve[k] : k \in DOMAIN _reserve}

\* does a pair hold an iterator to an erased node
Dangling(cp) == cp.iter2 \notin Live \/ (cp.var1 = NoVar /\ cp.iter1 \notin Live)

\* all polynomials
AllPolys(o) == {Poly(o, S) : S \in SUBSET MMs}

\* Buchb::Process(): one iteration of the loop.  Dereferencing an iterator
\* to an erased node is undefined: the S-polynomial may then be anything.
ProcessStep ==
    /\ pc = "process"
    /\ _pairs # <<>>
    /\ \E spoly \in (IF Dangling(_pairs[1]) THEN AllPolys(order)
                     ELSE {GetSPoly(order, mem, _pairs[1])}) :
          Store(ProcessPair(order, Engine, spoly))
    /\ UNCHANGED <<order, hooks, pc, last, inputs, updates, out, call>>

\* Buchb::Process(): the loop ends, the call returns
ProcessReturn ==
    /\ pc = "process"
    /\ _pairs = <<>>
    /\ pc' = "idle"
    /\ last' = "Process"
    /\ UNCHANGED <<order, hooks, mem, _basis, _reserve, _pairs, _pairs_processed,
                   _stat, inputs, updates, out, call>>

\* Buchb::Done
Done ==
    /\ pc = "idle"
    /\ ~out.called
    /\ out' = [called |-> TRUE,
               ideal |-> InsertAll(order, <<>>, ListPolys(mem, _basis))]
    /\ UNCHANGED <<order, hooks, mem, _basis, _reserve, _pairs, _pairs_processed,
                   _stat, pc, last, inputs, updates, call>>

\* QuotientBasisDim() called on the ideal filled by Done()
DoneQuotientBasisDim ==
    /\ pc = "idle"
    /\ out.called
    /\ call.op = "none"
    /\ call' = [op |-> "QuotientBasisDim", I |-> out.ideal, p |-> <<>>,
                out |-> [NoResult EXCEPT
                           !.dim = QuotientBasisDim(order, out.ideal)]]
    /\ UNCHANGED <<order, hooks, mem, _basis, _reserve, _pairs, _pairs_processed,
                   _stat, pc, last, inputs, updates, out>>

Next ==
    \/ DoneQuotientBasisDim
    \/ InitCall
    \/ UpdatePolyCall
    \/ UpdateIdealCall
    \/ ProcessCall
    \/ ProcessStep
    \/ ProcessReturn
    \/ Done

Spec == Init /\ [][Next]_vars

\* the degrees above which the hooks of the derived classes reject
HookCaps == {1, 2, 3}

\* Buchb::Buchb() of a class derived from Buchb that overrides the hooks
InitHooks ==
    /\ order \in Orders
    /\ hooks \in {[derived |-> TRUE, pre |-> a, post |-> b] :
                     a \in HookCaps, b \in HookCaps}
    /\ mem = <<>>
    /\ _basis = <<>>
    /\ _reserve = <<>>
    /\ _pairs = <<>>
    /\ _pairs_processed = <<>>
    /\ _stat = ZeroStat
    /\ pc = "idle"
    /\ last = "Buchb"
    /\ inputs = {}
    /\ updates = 0
    /\ out = NoOut
    /\ call = NoCall

SpecHooks == InitHooks /\ [][Next]_vars

(***************************************************************************)
(* The methods of MI on their own: an ideal is built from polynomials of   *)
(* a catalogue, then one method is called on it.                           *)
(***************************************************************************)
\* the largest number of polynomials inserted into the ideal
MaxPolys == 3

\* the polynomials the ideals are built from, as sets of monomials:
\* x0, x1, x1 + x0, x0x1, x0x1 + 1, x0x1 + x0, x2 + x1, x0x2 + x2,
\* x0x3 + x1x2, x0x1 + x2, x0x2 + x0x1, x1x2 + x2, 1
Polys ==
    {{{0}}, {{1}}, {{1}, {0}}, {{0, 1}}, {{0, 1}, {}}, {{0, 1}, {0}},
     {{2}, {1}}, {{0, 2}, {2}}, {{0, 3}, {1, 2}}, {{0, 1}, {2}},
     {{0, 2}, {0, 1}}, {{1, 2}, {2}}, {{}}}

\* the polynomials that are reduced: those of the catalogue, 0,
\* x0x1x2x3 + x0x1 + x2 + 1, x1x2x3 + x0x2 + x0 + x3
ReducePolys ==
    Polys \cup {{}, {{0, 1, 2, 3}, {0, 1}, {2}, {}}, {{1, 2, 3}, {0, 2}, {0}, {3}}}

\* an ideal right after its construction
InitMI ==
    /\ order \in Orders
    /\ hooks = DefaultHooks
    /\ mem = <<>>
    /\ _basis = <<>>
    /\ _reserve = <<>>
    /\ _pairs = <<>>
    /\ _pairs_processed = <<>>
    /\ _stat = ZeroStat
    /\ pc = "idle"
    /\ last = "MI"
    /\ inputs = {}
    /\ updates = 0
    /\ out = NoOut
    /\ \E SS \in SUBSET Polys :
          /\ Cardinality(SS) <= MaxPolys
          /\ call = [op |-> "MI", I |-> IdealOf(order, SS), p |-> <<>>,
                     out |-> NoResult]

\* the call of a method of MI with the argument p and the result r
Called(op, p, r) ==
    /\ call.op = "MI"
    /\ call' = [op |-> op, I |-> call.I, p |-> p, out |-> r]
    /\ UNCHANGED <<order, hooks, mem, _basis, _reserve, _pairs, _pairs_processed,
                   _stat, pc, last, inputs, updates, out>>

\* Ideal::Reduce(MP&)
ReduceCall ==
    \E S \in ReducePolys :
        Called("Reduce", Poly(order, S),
               [NoResult EXCEPT !.poly = Reduce(order, call.I, Poly(order, S))])

\* Ideal::ReduceClassic(MP&)
ReduceClassicCall ==
    \E S \in ReducePolys :
        Called("ReduceClassic", Poly(order, S),
               [NoResult EXCEPT
                   !.poly = ReduceClassic(order, call.I, Poly(order, S))])

\* Ideal::IsGB
IsGBCall ==
    Called("IsGB", <<>>, [NoResult EXCEPT !.flag = IsGB(order, call.I)])

\* Ideal::SelfReduce
SelfReduceCall ==
    Called("SelfReduce", <<>>,
           [NoResult EXCEPT !.ideal = SelfReduce(order, call.I)])

\* Ideal::QuotientBasis
QuotientBasisCall ==
    Called("QuotientBasis", <<>>,
           [NoResult EXCEPT !.poly = QuotientBasis(order, call.I)])

\* Ideal::QuotientBasisDim
QuotientBasisDimCall ==
    Called("QuotientBasisDim", <<>>,
           [NoResult EXCEPT !.dim = QuotientBasisDim(order, call.I)])

NextMI ==
    \/ ReduceCall
    \/ ReduceClassicCall
    \/ IsGBCall
    \/ SelfReduceCall
    \/ QuotientBasisCall
    \/ QuotientBasisDimCall

SpecMI == InitMI /\ [][NextMI]_vars

(***************************************************************************)
(* The methods of MP, each called on a polynomial right after its          *)
(* construction (specification SpecMP).                                    *)
(***************************************************************************)
\* the engine of the session is not used: its fields keep the values the
\* constructor gave them
NoEngine ==
    /\ hooks = DefaultHooks
    /\ mem = <<>>
    /\ _basis = <<>>
    /\ _reserve = <<>>
    /\ _pairs = <<>>
    /\ _pairs_processed = <<>>
    /\ _stat = ZeroStat
    /\ pc = "idle"
    /\ inputs = {}
    /\ updates = 0
    /\ out = NoOut

\* the polynomials the methods of MP are called with, as sets of monomials:
\* 0, 1, x0, x1 + x0, x0x1 + x2, x0x1x2 + x2 + x1, x0x3 + x1x2,
\* x2x3 + x1 + 1, x1x2x3 + x0x2 + x0 + x3, x0x1x2x3 + x0x1 + x2 + 1
MPPolys ==
    {{}, {{}}, {{0}}, {{1}, {0}}, {{0, 1}, {2}}, {{0, 1, 2}, {2}, {1}},
     {{0, 3}, {1, 2}}, {{2, 3}, {1}, {}}, {{1, 2, 3}, {0, 2}, {0}, {3}},
     {{0, 1, 2, 3}, {0, 1}, {2}, {}}}

\* OrderAlex::operator== names a member _A that OrderAlex does not have: the
\* methods that compare the orders of two polynomials of one type
\* (IsConsistent in operator=(const MP&)) are built for the other orders only
HasEqual(o) == o # "alex"

\* no result of a method of MP yet: the list left in *this, the list left
\* in polyRight, the value returned
NoResultMP == [poly |-> <<>>, right |-> <<>>, flag |-> FALSE]

\* the polynomial *this in the order of the session and the polynomial
\* polyRight in the order o1, right after their construction
InitMP ==
    /\ order \in AllOrders
    /\ NoEngine
    /\ last = "MP"
    /\ \E S \in MPPolys, T \in MPPolys, o1 \in AllOrders :
          call = [op |-> "MP", p |-> Poly(order, S), q |-> Poly(o1, T),
                  o1 |-> o1, m |-> {}, pos |-> 0, out |-> NoResultMP]

\* the call of a method of MP with the monomial m and the variable pos
\* among its arguments; r is the list left in *this
CalledMP(op, m, pos, r) ==
    /\ call.op = "MP"
    /\ call' = [call EXCEPT !.op = op, !.m = m, !.pos = pos,
                            !.out = [NoResultMP EXCEPT !.poly = r,
                                                       !.right = call.q]]
    /\ UNCHANGED <<order, hooks, mem, _basis, _reserve, _pairs, _pairs_processed,
                   _stat, pc, last, inputs, updates, out>>

\* the call of a method of MP that leaves the result res
ReturnedMP(op, m, pos, res) ==
    /\ call.op = "MP"
    /\ call' = [call EXCEPT !.op = op, !.m = m, !.pos = pos, !.out = res]
    /\ UNCHANGED <<order, hooks, mem, _basis, _reserve, _pairs, _pairs_processed,
                   _stat, pc, last, inputs, updates, out>>

\* the operands are of one type and the methods on two such operands exist
Consistent == call.o1 = order /\ HasEqual(order)

\* the methods without a polynomial argument are called once for each *this
NoRight == call.o1 = order /\ call.q = <<>>

\* MP::Mod with a consistent nonzero polyRight
ModCall ==
    /\ Consistent /\ call.q # <<>>
    /\ CalledMP("Mod", {}, 0, Mod(order, call.p, call.q))

\* MP::Div with a consistent nonzero polyRight
DivCall ==
    /\ Consistent /\ call.q # <<>>
    /\ CalledMP("Div", {}, 0, Div(order, call.p, call.q))

\* the monomials a read through end() can find
EndMMs(atEnd) == IF atEnd THEN MMs ELSE {{}}

\* MP::ModClassic with a consistent nonzero polyRight
ModClassicCall ==
    /\ Consistent /\ call.q # <<>>
    /\ \E g \in EndMMs(call.p = <<>>) :
          ReturnedMP("ModClassic", g, 0,
              [NoResultMP EXCEPT
                  !.poly = ModClassic(order, call.p, call.q, g).p,
                  !.right = call.q,
                  !.flag = ModClassic(order, call.p, call.q, g).changed])

\* MP::DivClassic with a consistent nonzero polyRight
DivClassicCall ==
    /\ Consistent /\ call.q # <<>>
    /\ \E g \in EndMMs(call.p = <<>>) :
          CalledMP("DivClassic", g, 0, DivClassic(order, call.p, call.q, g))

\* MP::Mult with a consistent polyRight
MultCall ==
    /\ Consistent
    /\ CalledMP("Mult", {}, 0, Mult(order, call.p, call.q))

\* MP::MultClassic with a consistent polyRight
MultClassicCall ==
    /\ Consistent
    /\ CalledMP("MultClassic", {}, 0, MultClassic(order, call.p, call.q))

\* MP::operator*=(const MM&)
MulMMCall ==
    /\ NoRight
    /\ \E m \in MMs : CalledMP("MulMM", m, 0, MulMM(order, call.p, m))

\* MP::Diff(const MM&)
DiffMMCall ==
    /\ NoRight
    /\ \E m \in MMs :
          \E g \in EndMMs(MMLowerBound(order, call.p, m, 1) > Len(call.p)) :
             \E r \in EraseEnd(call.p) :
                /\ g # m => r = call.p
                /\ CalledMP("DiffMM", m, 0, DiffMM(order, call.p, m, g, r))

\* MP::UnionSplice with a consistent polyRight
UnionSpliceCall ==
    /\ Consistent
    /\ ReturnedMP("UnionSplice", {}, 0,
           [NoResultMP EXCEPT
               !.poly = UnionSplice(order, call.p, call.q).p,
               !.right = UnionSplice(order, call.p, call.q).q])

\* MP::SymDiffSplice with a consistent polyRight
SymDiffSpliceCall ==
    /\ Consistent
    /\ ReturnedMP("SymDiffSplice", {}, 0,
           [NoResultMP EXCEPT
               !.poly = SymDiffSplice(order, call.p, call.q).p,
               !.right = SymDiffSplice(order, call.p, call.q).q])

\* MP::UnionNC with polyRight in any order
UnionNCCall == CalledMP("UnionNC", {}, 0, UnionNC(order, call.p, call.q))

\* MP::DiffNC with polyRight in any order
DiffNCCall == CalledMP("DiffNC", {}, 0, DiffNC(order, call.p, call.q))

\* MP::SymDiffNC with polyRight in any order
SymDiffNCCall == CalledMP("SymDiffNC", {}, 0, SymDiffNC(order, call.p, call.q))

\* MP::operator=(const MP<_n, _O1>&) with polyRight in another order
AssignCall ==
    /\ call.o1 # order
    /\ CalledMP("Assign", {}, 0, Assign(order, call.o1, call.q))

\* MP::SPoly(const MP&, const MP&) on consistent nonzero polynomials
SPolyCall ==
    /\ Consistent /\ call.p # <<>> /\ call.q # <<>>
    /\ CalledMP("SPoly", {}, 0, SPoly(order, call.p, call.q))

\* MP::SPoly(size_t) : the S-polynomial with the field equation of x_i
SPolyVarCall ==
    /\ NoRight /\ call.p # <<>>
    /\ \E i \in Vars : CalledMP("SPolyVar", {}, i, SPolyVar(order, i, call.p))

\* CritPair(i, &p).GetSPoly(spoly): the pair of the field equation
\* x_i^2 - x_i with the polynomial p; call.m keeps the lcm of the pair
GetSPolyCall ==
    /\ NoRight /\ call.p # <<>>
    /\ \E i \in Vars :
          CalledMP("GetSPoly", CritPairVar(<<call.p>>, i, 1).lcm, i,
              GetSPoly(order, <<call.p>>, CritPairVar(<<call.p>>, i, 1)))

\* MP::Replace(pos, polyReplace) with polyReplace of one type or in
\* another order
ReplaceCall ==
    /\ call.o1 = order => HasEqual(order)
    /\ \E pos \in Vars :
          CalledMP("Replace", {}, pos,
              Replace(order, call.p, pos, call.o1, call.q))

\* MP::ReplaceClassic(pos, polyReplace)
ReplaceClassicCall ==
    /\ call.o1 = order => HasEqual(order)
    /\ \E pos \in Vars :
          CalledMP("ReplaceClassic", {}, pos,
              ReplaceClassic(order, call.p, pos, call.o1, call.q))

\* MP::Replace(pos, posNew); the monomial m holds posNew
ReplaceVarCall ==
    /\ NoRight
    /\ \E pos \in Vars, posNew \in Vars :
          CalledMP("ReplaceVar", {posNew}, pos,
              ReplaceVar(order, call.p, pos, posNew))

\* MP::Set(pos, val)
SetCall ==
    /\ NoRight
    /\ \E pos \in Vars, val \in {0, 1} :
          ReturnedMP("Set", {}, pos,
              [NoResultMP EXCEPT !.poly = MPSet(order, call.p, pos, val),
                                 !.flag = (val = 1)])

NextMP ==
    \/ ModCall
    \/ DivCall
    \/ ModClassicCall
    \/ DivClassicCall
    \/ MultCall
    \/ MultClassicCall
    \/ MulMMCall
    \/ DiffMMCall
    \/ UnionSpliceCall
    \/ SymDiffSpliceCall
    \/ UnionNCCall
    \/ DiffNCCall
    \/ SymDiffNCCall
    \/ AssignCall
    \/ SPolyCall
    \/ SPolyVarCall
    \/ GetSPolyCall
    \/ ReplaceCall
    \/ ReplaceClassicCall
    \/ ReplaceVarCall
    \/ SetCall

SpecMP == InitMP /\ [][NextMP]_vars

(***************************************************************************)
(* The methods of MM and the Compare of the orders, called on monomials    *)
(* right after their construction (specification SpecMM).                  *)
(***************************************************************************)
\* no result of a method of MM yet
NoResultMM == [mon |-> {}, flag |-> FALSE, cmp |-> 0]

\* the monomials a and b right after their construction; x is the monomial
\* the methods change, constructed as a copy of a
InitMM ==
    /\ order \in AllOrders
    /\ NoEngine
    /\ last = "MM"
    /\ \E a \in MMs, b \in MMs :
          call = [op |-> "MM", a |-> a, b |-> b, c |-> {}, x |-> a,
                  out |-> NoResultMM]

\* the call of a method that leaves x as the monomial and r as the result
CalledMM(op, c, x, r) ==
    /\ call' = [call EXCEPT !.op = op, !.c = c, !.x = x, !.out = r]
    /\ UNCHANGED <<order, hooks, mem, _basis, _reserve, _pairs, _pairs_processed,
                   _stat, pc, last, inputs, updates, out>>

\* x *= b on the copy x of a
MMMulCall ==
    /\ call.op = "MM"
    /\ CalledMM("Mul", {}, MMMul(call.x, call.b), NoResultMM)

\* a | x on the product x
MMIsDivideCall ==
    /\ call.op = "Mul"
    /\ CalledMM("IsDivide", {}, call.x,
           [NoResultMM EXCEPT !.flag = IsDivide(call.a, call.x)])

\* x /= a on the product x, which a divides
MMDivCall ==
    /\ call.op = "Mul"
    /\ IsDivide(call.a, call.x)
    /\ CalledMM("Div", {}, MMDiv(call.x, call.a), NoResultMM)

\* _order.Compare(a, b)
CompareCall ==
    /\ call.op = "MM"
    /\ CalledMM("Compare", {}, call.x,
           [NoResultMM EXCEPT !.cmp = Compare(order, call.a, call.b)])

\* _order.Compare(a * c, b * c) for a monomial c
MulCompareCall ==
    /\ call.op = "MM"
    /\ \E c \in MMs :
          CalledMM("MulCompare", c, call.x,
              [NoResultMM EXCEPT
                  !.cmp = Compare(order, MMMul(call.a, c), MMMul(call.b, c))])

NextMM ==
    \/ MMMulCall
    \/ MMIsDivideCall
    \/ MMDivCall
    \/ CompareCall
    \/ MulCompareCall

SpecMM == InitMM /\ [][NextMM]_vars

(***************************************************************************)
(* Reference notions the properties are stated with.  They are computed    *)
(* from the definitions of the Boolean ring, not by the code under test.   *)
(***************************************************************************)
\* the set of the monomials of p
MonSet(p) == {p[k] : k \in DOMAIN p}

\* the largest monomial of the nonempty set S
MaxMon(o, S) == CHOOSE m \in S : \A m2 \in S : Compare(o, m, m2) >= 0

\* the sum of two polynomials given as sets of monomials
XorSet(A, B) == (A \ B) \cup (B \ A)

\* the product of the polynomial S and the monomial m in the Boolean ring
MulSet(S, m) ==
    {u \in {t \cup m : t \in S} :
        Cardinality({t \in S : t \cup m = u}) % 2 = 1}

\* the leading monomials of the nonzero members of the span of the rows R:
\* Gaussian elimination, one pivot monomial at a time from the largest down
RECURSIVE EchelonLMs(_, _)
EchelonLMs(o, R) ==
    IF R = {} THEN {}
    ELSE LET lm == MaxMon(o, UNION R)
             piv == CHOOSE v \in R : lm \in v
         IN {lm} \cup EchelonLMs(o,
                {IF lm \in v THEN XorSet(v, piv) ELSE v : v \in R} \ {{}})

\* the leading monomials of the nonzero polynomials of the ideal generated
\* by I: the ideal is the span of the products m * f, f in I, m a monomial
LMIdeal(o, I) ==
    EchelonLMs(o,
        {MulSet(MonSet(I[k]), m) : k \in DOMAIN I, m \in MMs} \ {{}})

\* I is a Groebner basis of the ideal it generates
TrueGB(o, I) ==
    \A lm \in LMIdeal(o, I) : \E k \in DOMAIN I : IsDivide(LM(I[k]), lm)

\* the remainders of the division of p by I, whichever member whose leading
\* monomial divides the current leading monomial is taken at each step
RECURSIVE NormalForms(_, _, _)
NormalForms(o, I, p) ==
    IF p = <<>> THEN {<<>>}
    ELSE LET D == {k \in DOMAIN I : IsDivide(LM(I[k]), LM(p))} IN
         IF D = {}
         THEN {<<LM(p)>> \o r : r \in NormalForms(o, I, PopLM(p))}
         ELSE UNION {NormalForms(o, I,
                         SymDiff(o, p, MulMM(o, I[k], MMDiv(LM(p), LM(I[k])))))
                     : k \in D}

\* the common zeros in {0,1}^V of the polynomials of the set P
ZerosOver(V, P) == {val \in SUBSET V : \A p \in P : ~MPCalc(p, val)}

\* no monomial of p is divisible by the leading monomial of a member of I
\* other than the member at position skip
Irreducible(I, p, skip) ==
    \A t \in DOMAIN p : \A k \in DOMAIN I :
        k # skip => ~IsDivide(LM(I[k]), p[t])

\* the sum over F2 of the monomials of the list s, which may repeat
OddSet(s) ==
    {m \in MonSet(s) : Cardinality({k \in DOMAIN s : s[k] = m}) % 2 = 1}

\* the product of the polynomials S and T in the Boolean ring
ProdSet(S, T) ==
    {u \in {a \cup b : a \in S, b \in T} :
        Cardinality({ab \in S \X T : ab[1] \cup ab[2] = u}) % 2 = 1}

\* p = quot * q + rem in the Boolean ring
IsDivision(p, quot, q, rem) ==
    MonSet(p) = XorSet(ProdSet(OddSet(quot), MonSet(q)), OddSet(rem))

(***************************************************************************)
(* MP::Geobucket as an object of its own (specification SpecGB): the       *)
(* buckets b, with the sum over F2 of what was added and not popped.       *)
(***************************************************************************)
\* the buckets after Geobucket::Mount: SymDiffSplice leaves in a bucket the
\* monomials it had in common with the sum so far
RECURSIVE GBMountLeft(_, _, _, _)
GBMountLeft(o, b, i, acc) ==
    IF i > Len(b) THEN b
    ELSE GBMountLeft(o, [b EXCEPT ![i] = SymDiffSplice(o, acc, b[i]).q],
                     i + 1, SymDiffSplice(o, acc, b[i]).p)

\* the calls made on one geobucket
MaxCalls == 4

\* the template argument _d
Growth == {2, 3, 4}

\* the monomials the geobucket is called with: x0x1, x2, x3, 1
GBMons == {{0, 1}, {2}, {3}, {}}

\* the polynomials the geobucket is called with, as sets of monomials:
\* x0x1 + 1, x0x1 + x2 + x0 + 1, x0x1x2 + x0x1 + x2 + x1 + 1
GBPolys ==
    {{{0, 1}, {}}, {{0, 1}, {2}, {0}, {}},
     {{0, 1, 2}, {0, 1}, {2}, {1}, {}}}

\* no result of a method of Geobucket yet
NoResultGB == [ok |-> FALSE, lm |-> {}, poly |-> <<>>]

\* Geobucket(const _O&) and Geobucket(MP&)
InitGB ==
    /\ order \in Orders
    /\ NoEngine
    /\ last = "GB"
    /\ \E d \in Growth, S \in GBPolys \cup {{}} :
          call = [op |-> "Geobucket", d |-> d,
                  b |-> GBInit(order, d, Poly(order, S)),
                  sum |-> S, before |-> S, calls |-> 0, mounted |-> FALSE,
                  out |-> NoResultGB]

\* the call of a method that leaves the buckets b and the result r; sum is
\* the sum over F2 of the monomials added and not popped, mounted tells
\* that Mount was called before this call
CalledGB(op, b, sum, r) ==
    /\ call.calls < MaxCalls
    /\ call' = [call EXCEPT !.op = op, !.b = b, !.sum = sum,
                            !.before = call.sum, !.calls = call.calls + 1,
                            !.mounted = call.mounted \/ call.op = "Mount",
                            !.out = r]
    /\ UNCHANGED <<order, hooks, mem, _basis, _reserve, _pairs, _pairs_processed,
                   _stat, pc, last, inputs, updates, out>>

\* Geobucket::SymDiff(const MM&)
GBSymDiffCall ==
    \E m \in GBMons :
        CalledGB("SymDiff", GBSymDiff(order, call.d, call.b, m),
                 XorSet(call.sum, {m}), [NoResultGB EXCEPT !.lm = m])

\* Geobucket::SymDiffSplice(MP&)
GBSymDiffSpliceCall ==
    \E S \in GBPolys :
        CalledGB("SymDiffSplice",
                 GBSymDiffSplice(order, call.d, call.b, Poly(order, S)),
                 XorSet(call.sum, S),
                 [NoResultGB EXCEPT !.poly = Poly(order, S)])

\* Geobucket::PopLM
GBPopLMCall ==
    CalledGB("PopLM", GBPopLM(order, call.b).b,
             IF call.sum = {} THEN {}
             ELSE call.sum \ {MaxMon(order, call.sum)},
             [NoResultGB EXCEPT !.ok = GBPopLM(order, call.b).ok,
                                !.lm = GBPopLM(order, call.b).lm])

\* Geobucket::Mount
GBMountCall ==
    CalledGB("Mount", GBMountLeft(order, call.b, 1, <<>>), call.sum,
             [NoResultGB EXCEPT !.poly = GBMount(order, call.b)])

NextGB ==
    \/ GBSymDiffCall
    \/ GBSymDiffSpliceCall
    \/ GBPopLMCall
    \/ GBMountCall

SpecGB == InitGB /\ [][NextGB]_vars

(***************************************************************************)
(* The methods Next and Pack of WW, called on a word right after its       *)
(* construction (specification SpecWW).                                    *)
(***************************************************************************)
\* the number of the words of length n and weight k
RECURSIVE Binom(_, _)
Binom(n, k) ==
    IF k = 0 \/ k = n THEN 1 ELSE Binom(n - 1, k - 1) + Binom(n - 1, k)

\* the lengths _n of the words
WWLens == 1 .. (B_PER_W + 1)

\* no result of a method of WW yet
NoResultWW == [ret |-> TRUE]

\* the word w of length n right after its construction; w0 keeps it, count
\* counts the calls of Next
InitWW ==
    /\ order = "lex"
    /\ NoEngine
    /\ last = "WW"
    /\ \E n \in WWLens : \E w \in SUBSET (0 .. (n - 1)) :
          call = [op |-> "WW", n |-> n, w0 |-> w, w |-> w, wMask |-> {},
                  pos |-> 0, val |-> 0, m |-> n, count |-> 0,
                  out |-> NoResultWW]

\* the call of a method that leaves the word w and returns ret
CalledWW(op, wMask, w, ret) ==
    /\ call' = [call EXCEPT !.op = op, !.wMask = wMask, !.w = w,
                            !.count = call.count + 1,
                            !.out = [ret |-> ret]]
    /\ UNCHANGED <<order, hooks, mem, _basis, _reserve, _pairs, _pairs_processed,
                   _stat, pc, last, inputs, updates, out>>

\* WW::Next(), called until the words of the length were gone through
NextCall ==
    /\ call.op \in {"WW", "Next"}
    /\ call.count < Pow2(call.n)
    /\ CalledWW("Next", {}, WWNext(call.n, call.w, FALSE).w,
                WWNext(call.n, call.w, FALSE).ret)

\* WW::Next(true), called until the words of the weight were gone through
NextWeightCall ==
    /\ call.op \in {"WW", "NextWeight"}
    /\ call.count < Binom(call.n, Deg(call.w0))
    /\ CalledWW("NextWeight", {}, WWNext(call.n, call.w, TRUE).w,
                WWNext(call.n, call.w, TRUE).ret)

\* WW::Pack(wMask)
PackCall ==
    /\ call.op = "WW"
    /\ \E wMask \in SUBSET (0 .. (call.n - 1)) :
          CalledWW("Pack", wMask, Pack(call.n, call.w, wMask), TRUE)

\* the call of a method with the position or shift pos, the machine word or
\* octet val, or the word wMask of length m, that leaves the word w
CalledWWAt(op, pos, val, m, wMask, w, ret) ==
    /\ call' = [call EXCEPT !.op = op, !.pos = pos, !.val = val, !.m = m,
                            !.wMask = wMask, !.w = w,
                            !.count = call.count + 1,
                            !.out = [ret |-> ret]]
    /\ UNCHANGED <<order, hooks, mem, _basis, _reserve, _pairs, _pairs_processed,
                   _stat, pc, last, inputs, updates, out>>

\* WW::SetWord(pos, val)
SetWordCall ==
    /\ call.op = "WW"
    /\ \E pos \in 0 .. (WCount(call.n) - 1) : \E val \in Words :
          CalledWWAt("SetWord", pos, val, call.n, {},
                     SetWord(call.n, call.w, pos, val), TRUE)

\* WW::SetOctet(pos, val)
SetOctetCall ==
    /\ call.op = "WW"
    /\ \E pos \in 0 .. (OCount(call.n) - 1) : \E val \in 0 .. (Pow2(B_PER_O) - 1) :
          CalledWWAt("SetOctet", pos, val, call.n, {},
                     SetOctet(call.n, call.w, pos, val), TRUE)

\* WW::FlipAll()
FlipAllCall ==
    /\ call.op = "WW"
    /\ CalledWW("FlipAll", {}, FlipAll(call.n, call.w), TRUE)

\* WW::ShLo(shift), ShHi(shift), RotLo(shift), RotHi(shift)
ShiftCall ==
    /\ call.op = "WW"
    /\ \E shift \in 0 .. (call.n + 1) :
          \/ CalledWWAt("ShLo", shift, 0, call.n, {},
                        ShLo(call.n, call.w, shift), TRUE)
          \/ CalledWWAt("ShHi", shift, 0, call.n, {},
                        ShHi(call.n, call.w, shift), TRUE)
          \/ CalledWWAt("RotLo", shift, 0, call.n, {},
                        RotLo(call.n, call.w, shift), TRUE)
          \/ CalledWWAt("RotHi", shift, 0, call.n, {},
                        RotHi(call.n, call.w, shift), TRUE)

\* WW::Prev(saveWeight)
PrevCall ==
    /\ call.op = "WW"
    /\ \E saveWeight \in BOOLEAN :
          CalledWWAt("Prev", 0, IF saveWeight THEN 1 ELSE 0, call.n, {},
                     Prev(call.n, call.w, saveWeight).w,
                     Prev(call.n, call.w, saveWeight).ret)

\* WW::Unpack(wMask)
UnpackCall ==
    /\ call.op = "WW"
    /\ \E wMask \in SUBSET (0 .. (call.n - 1)) :
          CalledWW("Unpack", wMask, Unpack(call.n, call.w, wMask), TRUE)

\* WW::operator=(const WW<_m>&) for a word of another length
AssignWWCall ==
    /\ call.op = "WW"
    /\ \E m \in WWLens \ {call.n} : \E wRight \in SUBSET (0 .. (m - 1)) :
          CalledWWAt("Assign", 0, 0, m, wRight,
                     AssignWW(call.n, call.w, m, wRight), TRUE)

\* WW::SetLo(const WW<_m>&) and WW::SetHi(const WW<_m>&), _m <= _n
SetPartCall ==
    /\ call.op = "WW"
    /\ \E m \in 1 .. call.n : \E wPart \in SUBSET (0 .. (m - 1)) :
          \/ CalledWWAt("SetLo", 0, 0, m, wPart,
                        SetLo(call.n, call.w, m, wPart), TRUE)
          \/ CalledWWAt("SetHi", 0, 0, m, wPart,
                        SetHi(call.n, call.w, m, wPart), TRUE)

NextWW ==
    \/ NextCall
    \/ NextWeightCall
    \/ PackCall
    \/ SetWordCall
    \/ SetOctetCall
    \/ FlipAllCall
    \/ ShiftCall
    \/ PrevCall
    \/ UnpackCall
    \/ AssignWWCall
    \/ SetPartCall

SpecWW == InitWW /\ [][NextWW]_vars

(***************************************************************************)
(* The stream operators of ZZ, MM, MP and WW.  A stream is the sequence of *)
(* characters not read yet with the flags eofbit and failbit; the          *)
(* characters are strings of length 1.                                     *)
(***************************************************************************)
\* the decimal digits: the digit of value d is DecDigits[d + 1]
DecDigits == <<"0", "1", "2", "3", "4", "5", "6", "7", "8", "9">>

\* the value of the digit c
DigitVal(c) == (CHOOSE k \in DOMAIN DecDigits : DecDigits[k] = c) - 1

IsDigit(c) == \E k \in DOMAIN DecDigits : DecDigits[k] = c

\* the blank characters of the readers (the model has no "\v")
IsSpace(c) == c \in {" ", "\n", "\r", "\t"}

\* the stream that holds the text buf
StreamOf(buf) == [buf |-> buf, eof |-> FALSE, fail |-> FALSE]

\* basic_ios::good
Good(is) == ~is.eof /\ ~is.fail

\* the text without its leading blanks
RECURSIVE SkipWs(_)
SkipWs(buf) ==
    IF buf # <<>> /\ IsSpace(Head(buf)) THEN SkipWs(Tail(buf)) ELSE buf

\* basic_istream::sentry : a stream that is not good fails; the leading
\* blanks are skipped, and a stream that ends there gets eofbit and failbit
Sentry(is) ==
    IF ~Good(is) THEN [is |-> [is EXCEPT !.fail = TRUE], ok |-> FALSE]
    ELSE IF SkipWs(is.buf) = <<>>
    THEN [is |-> [buf |-> <<>>, eof |-> TRUE, fail |-> TRUE], ok |-> FALSE]
    ELSE [is |-> [is EXCEPT !.buf = SkipWs(is.buf)], ok |-> TRUE]

\* operator<< of a number in decimal form
RECURSIVE DecWrite(_)
DecWrite(z) ==
    IF z < 10 THEN <<DecDigits[z + 1]>>
    ELSE DecWrite(z \div 10) \o <<DecDigits[(z % 10) + 1]>>

\* the loop of operator>>(istream&, ZZ<_n>&) in decimal form: the number
\* read and the stream it leaves
RECURSIVE ZZReadLoop(_, _, _, _)
ZZReadLoop(n, is, z, changed) ==
    IF is.buf = <<>>
    THEN [is |-> [is EXCEPT !.eof = TRUE, !.fail = @ \/ ~changed], z |-> z]
    ELSE IF IsDigit(Head(is.buf))
    THEN IF z * 10 + DigitVal(Head(is.buf)) < Pow2(n)
         THEN ZZReadLoop(n, [is EXCEPT !.buf = Tail(@)],
                         z * 10 + DigitVal(Head(is.buf)), TRUE)
         ELSE [is |-> is, z |-> z]
    ELSE [is |-> [is EXCEPT !.fail = @ \/ ~changed], z |-> z]

\* operator>>(istream&, ZZ<_n>&)
ZZRead(n, is) ==
    IF Sentry(is).ok THEN ZZReadLoop(n, Sentry(is).is, 0, FALSE)
    ELSE [is |-> Sentry(is).is, z |-> 0]

\* operator<<(ostream&, const MM<_n>&) from the position pos on
RECURSIVE MMWriteFrom(_, _, _, _)
MMWriteFrom(n, m, pos, waitfirst) ==
    IF pos >= n THEN (IF waitfirst THEN <<"1">> ELSE <<>>)
    ELSE IF Test(m, pos)
    THEN (IF waitfirst THEN <<>> ELSE <<" ">>) \o <<"x">> \o DecWrite(pos)
             \o MMWriteFrom(n, m, pos + 1, FALSE)
    ELSE MMWriteFrom(n, m, pos + 1, waitfirst)

\* operator<<(ostream&, const MM<_n>&)
MMWrite(n, m) == MMWriteFrom(n, m, 0, TRUE)

\* operator>>(istream&, MM<_n>&) after the prefix x: the index is read and
\* checked; loop is what the loop does with the stream, the monomial and the
\* flag changed when the index is taken
MMReadVar(n, r, m) ==
    IF ~Good(r.is) \/ r.z >= n \/ Test(m, r.z)
    THEN [is |-> [r.is EXCEPT !.fail = TRUE], m |-> m, go |-> FALSE]
    ELSE [is |-> r.is, m |-> m \cup {r.z}, go |-> TRUE]

\* the loop of operator>>(istream&, MM<_n>&)
RECURSIVE MMReadLoop(_, _, _, _, _)
MMReadLoop(n, is, m, changed, waitfordelimiter) ==
    IF is.buf = <<>>
    THEN [is |-> [is EXCEPT !.eof = TRUE, !.fail = @ \/ ~changed], m |-> m]
    ELSE IF Head(is.buf) = "1" /\ ~changed
    THEN [is |-> [is EXCEPT !.buf = Tail(@)], m |-> m]
    ELSE IF Head(is.buf) = "x"
    THEN IF waitfordelimiter
         THEN [is |-> [is EXCEPT !.buf = Tail(@), !.fail = TRUE], m |-> m]
         ELSE IF MMReadVar(n, ZZRead(n, [is EXCEPT !.buf = Tail(@)]), m).go
         THEN MMReadLoop(n,
                  MMReadVar(n, ZZRead(n, [is EXCEPT !.buf = Tail(@)]), m).is,
                  MMReadVar(n, ZZRead(n, [is EXCEPT !.buf = Tail(@)]), m).m,
                  TRUE, TRUE)
         ELSE [is |-> MMReadVar(n, ZZRead(n, [is EXCEPT !.buf = Tail(@)]), m).is,
               m |-> m]
    ELSE IF IsSpace(Head(is.buf))
    THEN MMReadLoop(n, [is EXCEPT !.buf = Tail(@)], m, changed, FALSE)
    ELSE [is |-> [is EXCEPT !.fail = @ \/ ~changed], m |-> m]

\* operator>>(istream&, MM<_n>&)
MMRead(n, is) ==
    IF Sentry(is).ok THEN MMReadLoop(n, Sentry(is).is, {}, FALSE, FALSE)
    ELSE [is |-> Sentry(is).is, m |-> {}]

\* operator<<(ostream&, const MP<_n, _O>&)
RECURSIVE MPWriteFrom(_, _, _)
MPWriteFrom(n, p, waitfirst) ==
    IF p = <<>> THEN (IF waitfirst THEN <<"0">> ELSE <<>>)
    ELSE (IF waitfirst THEN <<>> ELSE <<" ", "+", " ">>) \o MMWrite(n, p[1])
             \o MPWriteFrom(n, Tail(p), FALSE)

MPWrite(n, p) == MPWriteFrom(n, p, TRUE)

\* the loop of operator>>(istream&, MP<_n, _O>&)
RECURSIVE MPReadLoop(_, _, _, _, _, _)
MPReadLoop(o, n, is, p, changed, waitforplus) ==
    IF is.buf = <<>>
    THEN [is |-> [is EXCEPT !.eof = TRUE, !.fail = @ \/ ~changed], p |-> p]
    ELSE IF IsSpace(Head(is.buf))
    THEN MPReadLoop(o, n, [is EXCEPT !.buf = Tail(@)], p, changed, waitforplus)
    ELSE IF waitforplus
    THEN IF Head(is.buf) # "+" THEN [is |-> is, p |-> p]
         ELSE MPReadLoop(o, n, [is EXCEPT !.buf = Tail(@)], p, changed, FALSE)
    ELSE IF Head(is.buf) = "0"
    THEN MPReadLoop(o, n, [is EXCEPT !.buf = Tail(@)], p, TRUE, TRUE)
    ELSE IF ~Good(MMRead(n, is).is)
    THEN [is |-> [MMRead(n, is).is EXCEPT !.fail = TRUE], p |-> p]
    ELSE MPReadLoop(o, n, MMRead(n, is).is,
                    SymDiffMM(o, p, MMRead(n, is).m), TRUE, TRUE)

\* operator>>(istream&, MP<_n, _O>&)
MPRead(o, n, is) ==
    IF Sentry(is).ok THEN MPReadLoop(o, n, Sentry(is).is, <<>>, FALSE, FALSE)
    ELSE [is |-> Sentry(is).is, p |-> <<>>]

\* operator<<(ostream&, const WW<_n>&)
RECURSIVE WWWriteFrom(_, _, _)
WWWriteFrom(n, w, pos) ==
    IF pos >= n THEN <<>>
    ELSE <<IF Test(w, pos) THEN "1" ELSE "0">> \o WWWriteFrom(n, w, pos + 1)

WWWrite(n, w) == WWWriteFrom(n, w, 0)

\* the loop of operator>>(istream&, WW<_n>&)
RECURSIVE WWReadLoop(_, _, _, _)
WWReadLoop(n, is, w, pos) ==
    IF pos >= n THEN [is |-> is, w |-> w]
    ELSE IF is.buf = <<>>
    THEN [is |-> [is EXCEPT !.eof = TRUE, !.fail = @ \/ pos = 0], w |-> w]
    ELSE IF Head(is.buf) \in {"0", "1"}
    THEN WWReadLoop(n, [is EXCEPT !.buf = Tail(@)],
                    SetBit(w, pos, Head(is.buf) = "1"), pos + 1)
    ELSE [is |-> [is EXCEPT !.fail = @ \/ pos = 0], w |-> w]

\* operator>>(istream&, WW<_n>&)
WWRead(n, is) ==
    IF Sentry(is).ok THEN WWReadLoop(n, Sentry(is).is, {}, 0)
    ELSE [is |-> Sentry(is).is, w |-> {}]

(***************************************************************************)
(* A value is written to a stream with operator<< and read back with       *)
(* operator>> (specification SpecIO).                                      *)
(***************************************************************************)
\* what follows the written text in the stream: nothing, a blank, a line
\* end, other text
Tails == {<<>>, <<" ">>, <<"\n">>, <<";">>}

\* the value to write: a monomial m, a polynomial p or a word w of length n
InitIO ==
    /\ order \in Orders
    /\ NoEngine
    /\ last = "IO"
    /\ \E type \in {"MM", "MP", "WW"}, m \in MMs, S \in MPPolys,
          n \in WWLens, tail \in Tails :
          /\ type # "MM" => m = {}
          /\ type # "MP" => S = {}
          /\ type # "WW" => n = 1
          /\ \E w \in SUBSET (0 .. (n - 1)) :
                /\ type # "WW" => w = {}
                /\ call = [op |-> "IO", type |-> type, m |-> m,
                           p |-> Poly(order, S), n |-> n, w |-> w,
                           tail |-> tail, is |-> StreamOf(<<>>),
                           out |-> [m |-> {}, p |-> <<>>, w |-> {}]]

\* the call of a stream operator that leaves the stream is and the value r
CalledIO(op, is, r) ==
    /\ call' = [call EXCEPT !.op = op, !.is = is, !.out = r]
    /\ UNCHANGED <<order, hooks, mem, _basis, _reserve, _pairs,
                   _pairs_processed, _stat, pc, last, inputs, updates, out>>

\* os << m
MMWriteCall ==
    /\ call.op = "IO" /\ call.type = "MM"
    /\ CalledIO("Write", StreamOf(MMWrite(N, call.m) \o call.tail), call.out)

\* is >> m
MMReadCall ==
    /\ call.op = "Write" /\ call.type = "MM"
    /\ CalledIO("Read", MMRead(N, call.is).is,
                [call.out EXCEPT !.m = MMRead(N, call.is).m])

\* os << p
MPWriteCall ==
    /\ call.op = "IO" /\ call.type = "MP"
    /\ CalledIO("Write", StreamOf(MPWrite(N, call.p) \o call.tail), call.out)

\* is >> p
MPReadCall ==
    /\ call.op = "Write" /\ call.type = "MP"
    /\ CalledIO("Read", MPRead(order, N, call.is).is,
                [call.out EXCEPT !.p = MPRead(order, N, call.is).p])

\* os << w
WWWriteCall ==
    /\ call.op = "IO" /\ call.type = "WW"
    /\ CalledIO("Write", StreamOf(WWWrite(call.n, call.w) \o call.tail),
                call.out)

\* is >> w
WWReadCall ==
    /\ call.op = "Write" /\ call.type = "WW"
    /\ CalledIO("Read", WWRead(call.n, call.is).is,
                [call.out EXCEPT !.w = WWRead(call.n, call.is).w])

NextIO ==
    \/ MMWriteCall
    \/ MMReadCall
    \/ MPWriteCall
    \/ MPReadCall
    \/ WWWriteCall
    \/ WWReadCall

SpecIO == InitIO /\ [][NextIO]_vars

(***************************************************************************)
(* Properties of the methods of MI (specification SpecMI).                 *)
(***************************************************************************)
\* C6: IsGB(I) returns true exactly when I is a Groebner basis of the ideal
\* it generates: every nonzero polynomial of the ideal has a leading
\* monomial divisible by the leading monomial of some member of I.
C6_IsGBExact ==
    call.op = "IsGB" => (call.out.flag <=> TrueGB(order, call.I))

\* IsGB answered yes on an ideal of several members, and answered no on an
\* ideal whose member pairs all pass (one member; a field equation fails)
C6_Witness ==
    /\ call.op = "IsGB"
    /\ \/ call.out.flag /\ Len(call.I) >= 2
       \/ ~call.out.flag /\ Len(call.I) = 1

\* C7: when I is a Groebner basis, QuotientBasisDim(I) is the number of
\* monomials enumerated by QuotientBasis(I).
C7_DimIsSize ==
    call.op = "QuotientBasisDim" /\ IsGB(order, call.I)
        => call.out.dim = Len(QuotientBasis(order, call.I))

C7_Witness ==
    /\ call.op = "QuotientBasisDim"
    /\ IsGB(order, call.I)
    /\ Len(call.I) >= 2
    /\ call.out.dim >= 3
    /\ GatherVars(call.I) # Vars

\* C8: the result of Reduce, and of ReduceClassic, has no monomial divisible
\* by the leading monomial of a member of I.
C8_Remainder ==
    call.op \in {"Reduce", "ReduceClassic"} => Irreducible(call.I, call.out.poly, 0)

C8_Witness ==
    /\ call.op = "Reduce"
    /\ call.out.poly # call.p
    /\ call.out.poly # <<>>
    /\ Len(call.I) >= 2

\* C9: when IsGB(I) is true, the division of p by I has one remainder
\* whichever divisors are taken, and Reduce and ReduceClassic both return it.
C9_UniqueRemainder ==
    call.op \in {"Reduce", "ReduceClassic"} /\ IsGB(order, call.I)
        => NormalForms(order, call.I, call.p) = {call.out.poly}

C9_Witness ==
    /\ call.op = "ReduceClassic"
    /\ IsGB(order, call.I)
    /\ Len(call.I) >= 2
    /\ call.out.poly # call.p
    /\ call.out.poly # <<>>
    /\ \E k1, k2 \in DOMAIN call.I :
          /\ k1 # k2
          /\ IsDivide(LM(call.I[k1]), LM(call.p))
          /\ IsDivide(LM(call.I[k2]), LM(call.p))

\* C10 as stated: if IsGB is true for SelfReduce(I) then IsGB is true for I.
C10_SelfReduceReflectsGB ==
    call.op = "SelfReduce" /\ IsGB(order, call.out.ideal) => IsGB(order, call.I)

\* C10 amended: if IsGB is true for I then IsGB is true for SelfReduce(I).
C10_SelfReducePreservesGB ==
    call.op = "SelfReduce" /\ IsGB(order, call.I) => IsGB(order, call.out.ideal)

C10_Witness ==
    /\ call.op = "SelfReduce"
    /\ IsGB(order, call.I)
    /\ call.out.ideal # call.I
    /\ Len(call.out.ideal) >= 2

(***************************************************************************)
(* Properties of the engine (specification Spec, FairSpec for termination) *)
(***************************************************************************)
\* Done() has returned the result of a Process() that ran to its end
Processed == out.called /\ last = "Process"

\* C1: after Update() calls followed by Process(), with the default hooks,
\* the basis returned by Done() is a Groebner basis: IsGB is true on it.
C1_OutputIsGB == Processed => IsGB(order, out.ideal)

\* the run had to add S-polynomials to reach the basis
C1_Witness ==
    /\ Processed
    /\ Len(out.ideal) >= 3
    /\ _stat.pairs_processed - _stat.reduction_to_zero >= 2
    /\ _stat.max_deg >= 1
    /\ IsGB(order, out.ideal)
    /\ ~IsGB(order, IdealOf(order, {MonSet(p) : p \in inputs}))

\* C2: the basis returned by Done() after Process() is reduced: no monomial
\* of a member is divisible by the leading monomial of another member.
C2_OutputIsReduced ==
    Processed =>
        \A k \in DOMAIN out.ideal : Irreducible(out.ideal, out.ideal[k], k)

\* C3 as stated: the basis returned by Done() has the same common zeros in
\* {0,1}^n as the polynomials passed to Update() since the last Init().
C3_SameZerosAnyDone ==
    out.called => ZerosOver(Vars, MonSet(out.ideal)) = ZerosOver(Vars, inputs)

\* C3 amended: the basis returned by Done() once Process() has returned has
\* the same common zeros in {0,1}^n as the polynomials passed to Update()
\* since the last Init().
C3_SameZeros ==
    Processed =>
        ZerosOver(Vars, MonSet(out.ideal)) = ZerosOver(Vars, inputs)

\* polynomials went to the reserve and pairs were deleted on the way
C3_Witness ==
    /\ Processed
    /\ _stat.r_criterion >= 1
    /\ _stat.a_criterion + _stat.b_criterion + _stat.c_criterion >= 1
    /\ _stat.buch_criterion >= 1
    /\ MonSet(out.ideal) # inputs
    /\ ZerosOver(Vars, inputs) # {}
    /\ ZerosOver(Vars, MonSet(out.ideal)) = ZerosOver(Vars, inputs)

\* C5: QuotientBasisDim of the basis G returned by the engine is the number
\* of common zeros of G in {0,1}^V, V the variables that occur in G.
C5_DimIsSolutionCount ==
    Processed /\ call.op = "QuotientBasisDim" =>
        call.out.dim = Cardinality(ZerosOver(GatherVars(call.I), MonSet(call.I)))

\* the number of monomials that no leading monomial of the basis divides
Standard(mem1, basis1) ==
    Cardinality({m \in MMs :
        \A k \in DOMAIN basis1 : ~IsDivide(LM(mem1[basis1[k]]), m)})

\* C4: Process() terminates.  Every iteration of the loop lowers the pair
\* (Standard, length of the pair queue) in the lexicographic order of pairs
\* of natural numbers, which has no infinite descending chain; the loop is
\* left when the queue is empty.
C4_ProcessTerminates ==
    [][pc = "process" /\ pc' = "process" =>
          \/ Standard(mem', _basis') < Standard(mem, _basis)
          \/ /\ Standard(mem', _basis') = Standard(mem, _basis)
             /\ Len(_pairs') < Len(_pairs)]_vars

\* a Process() that returned after a long run in which the basis grew
C4_Witness ==
    /\ pc = "idle"
    /\ last = "Process"
    /\ _pairs = <<>>
    /\ Len(_pairs_processed) >= 10
    /\ _stat.pairs_processed - _stat.reduction_to_zero >= 2
    /\ _stat.max_deg >= 1

(***************************************************************************)
(* Properties of the methods of MP (specification SpecMP).                 *)
(***************************************************************************)
\* C11: for every polynomial p and every nonzero q in the same order,
\* p = (p div q) * q + (p mod q) over F2 with the product of the Boolean
\* ring, div and mod being the results of Div and Mod, and equally of
\* DivClassic and ModClassic (whatever the two read through end()).
C11_DivMod ==
    /\ call.op = "Div" =>
          IsDivision(call.p, call.out.poly, call.q,
                     Mod(order, call.p, call.q))
    /\ call.op = "Mod" =>
          IsDivision(call.p, Div(order, call.p, call.q), call.q,
                     call.out.poly)
    /\ call.op = "DivClassic" =>
          \A g \in EndMMs(call.p = <<>>) :
              IsDivision(call.p, call.out.poly, call.q,
                         ModClassic(order, call.p, call.q, g).p)
    /\ call.op = "ModClassic" =>
          \A g \in EndMMs(call.p = <<>>) :
              IsDivision(call.p, DivClassic(order, call.p, call.q, g),
                         call.q, call.out.poly)

\* a division with a quotient of several monomials and a nonzero remainder
\* that is not the dividend
C11_Witness ==
    /\ call.op = "Div"
    /\ Len(call.out.poly) >= 2
    /\ Mod(order, call.p, call.q) # <<>>
    /\ Mod(order, call.p, call.q) # call.p

(***************************************************************************)
(* Properties of the monomials and of the orders (specification SpecMM).   *)
(***************************************************************************)
\* C12 as stated: for all monomials m and n, m divides m * n and
\* (m * n) / m = n.
C12_MulDivAny ==
    /\ call.op = "IsDivide" => call.out.flag
    /\ call.op = "Div" => call.x = call.b

\* C12: for all monomials m and n, m divides m * n; (m * n) / m is n without
\* the variables of m, which is n when m and n have no common variable.
C12_MulDiv ==
    /\ call.op = "IsDivide" => call.out.flag
    /\ call.op = "Div" => call.x = call.b \ call.a
    /\ call.op = "Div" /\ IsRelPrime(call.a, call.b) => call.x = call.b

\* the product of two monomials of several variables without a common one
\* was divided by the first
C12_Witness ==
    /\ call.op = "Div"
    /\ IsRelPrime(call.a, call.b)
    /\ Deg(call.a) >= 2 /\ Deg(call.b) >= 2

\* C13 as stated: for every provided order and all monomials a, b, c,
\* a <= b implies a * c <= b * c.
C13_CompatibleAny ==
    call.op = "MulCompare" /\ Compare(order, call.a, call.b) <= 0
        => call.out.cmp <= 0

\* C13: for every provided order, all monomials a, b and every monomial c
\* without a variable of a or of b, a <= b implies a * c <= b * c (and
\* a < b implies a * c < b * c).
C13_Compatible ==
    call.op = "MulCompare" /\ IsRelPrime(call.a, call.c)
                           /\ IsRelPrime(call.b, call.c)
        => /\ Compare(order, call.a, call.b) <= 0 => call.out.cmp <= 0
           /\ Compare(order, call.a, call.b) < 0 => call.out.cmp < 0

\* two different monomials of the same degree were multiplied by a
\* monomial without their variables and compared in a combined order
C13_Witness ==
    /\ call.op = "MulCompare"
    /\ order = "lr(grlex,lex)"
    /\ call.c # {}
    /\ IsRelPrime(call.a, call.c) /\ IsRelPrime(call.b, call.c)
    /\ Deg(call.a) = Deg(call.b)
    /\ Compare(order, call.a, call.b) < 0

\* C18: for every pair of monomials m1, m2 the order grlex and the order
\* graded(lex) return the same value of Compare.
C18_GrlexIsGrLex ==
    /\ call.op = "Compare" /\ order = "grlex"
          => call.out.cmp = Compare("gr(lex)", call.a, call.b)
    /\ call.op = "Compare" /\ order = "gr(lex)"
          => call.out.cmp = Compare("grlex", call.a, call.b)

\* graded(lex) compared two different monomials of the same degree, and the
\* greater came first
C18_Witness ==
    /\ call.op = "Compare" /\ order = "gr(lex)"
    /\ Deg(call.a) = Deg(call.b)
    /\ call.out.cmp = 1

\* C14: every method of MP other than a raw one leaves the polynomial
\* normalised, its monomials strictly decreasing in the order: the products
\* by a monomial and by a polynomial, Mod and Div (classic and geobucket),
\* the NC and Splice merges, the S-polynomials, the substitutions and the
\* assignment from a polynomial in another order, for every order.
C14_StaysNormalized ==
    call.op \in {"MulMM", "Mult", "MultClassic", "Mod", "ModClassic", "Div",
                 "DivClassic", "UnionNC", "DiffNC", "SymDiffNC",
                 "UnionSplice", "SymDiffSplice", "SPoly", "SPolyVar",
                 "Replace", "ReplaceClassic", "ReplaceVar", "Set", "Assign"}
        => IsNormalized(order, call.out.poly)

\* C15: Diff(m) removes the monomial m from the polynomial when it is there
\* and leaves the polynomial as it is when it is not, the empty polynomial
\* included.
C15_DiffMM ==
    call.op = "DiffMM"
        => call.out.poly = SelectSeq(call.p, LAMBDA x : x # call.m)

(***************************************************************************)
(* Properties of MP::Geobucket (specification SpecGB).                     *)
(***************************************************************************)
\* the sum over F2 of the buckets b from bucket i on
RECURSIVE BucketSum(_, _)
BucketSum(b, i) ==
    IF i > Len(b) THEN {} ELSE XorSet(MonSet(b[i]), BucketSum(b, i + 1))

\* C16: in a geobucket of growth d bucket k never holds more than d^(k+1)
\* monomials: after the construction and after every SymDiff(monomial),
\* SymDiffSplice(polynomial), PopLM and Mount, in any sequence of calls.
C16_BucketSizes ==
    call.op \in {"Geobucket", "SymDiff", "SymDiffSplice", "PopLM", "Mount"}
        => \A k \in 0 .. (Len(call.b) - 1) :
              Len(call.b[k + 1]) <= Pow(call.d, k + 1)

\* a bucket that is full, behind a first bucket that is not empty, in a
\* geobucket of three buckets
C16_Witness ==
    /\ call.op = "SymDiff"
    /\ Len(call.b) = 3
    /\ call.b[1] # <<>>
    /\ Len(call.b[2]) = Pow(call.d, 2)

\* C17: a geobucket is one accumulator.  After any sequence of SymDiff,
\* SymDiffSplice and PopLM the buckets sum to the sum over F2 of what was
\* added without what was popped; PopLM returns false exactly when that sum
\* is zero and otherwise returns and removes its greatest monomial; Mount
\* returns exactly that sum, as a normalised polynomial.
C17_OneAccumulator ==
    /\ call.op \in {"Geobucket", "SymDiff", "SymDiffSplice", "PopLM"}
          /\ ~call.mounted
          => BucketSum(call.b, 1) = call.sum
    /\ call.op = "PopLM" /\ ~call.mounted
          => /\ call.out.ok = (call.before # {})
             /\ call.out.ok => call.out.lm = MaxMon(order, call.before)
    /\ call.op = "Mount" /\ ~call.mounted
          => /\ MonSet(call.out.poly) = call.sum
             /\ IsNormalized(order, call.out.poly)

\* PopLM returned a monomial after two buckets lost equal leading monomials
C17_Witness ==
    /\ call.op = "PopLM" /\ ~call.mounted
    /\ call.out.ok
    /\ Cardinality(call.before) >= 2
    /\ \E i \in DOMAIN call.b : \E j \in DOMAIN call.b :
          /\ i # j
          /\ Len(call.b[i]) + Len(call.b[j]) + 2 <= Cardinality(call.before)
    /\ Cardinality(BucketSum(call.b, 1)) + 1 = Cardinality(call.before)

(***************************************************************************)
(* Properties of WW (specification SpecWW).                                *)
(***************************************************************************)
\* C19: Next() is a cyclic permutation of the 2^n words of length n and
\* Next(true) one of the C(n, k) words of each weight k: from any word the
\* calls stay among these words and come back to the word for the first
\* time after 2^n, respectively C(n, k), calls; a call returns false
\* exactly when it wraps around to the first word.
C19_NextCycles ==
    /\ call.op = "Next" =>
          /\ call.w \subseteq 0 .. (call.n - 1)
          /\ (call.w = call.w0) = (call.count = Pow2(call.n))
          /\ call.out.ret = (call.w # {})
    /\ call.op = "NextWeight" =>
          /\ call.w \subseteq 0 .. (call.n - 1)
          /\ Deg(call.w) = Deg(call.w0)
          /\ (call.w = call.w0) = (call.count = Binom(call.n, Deg(call.w0)))
          /\ call.out.ret = (call.w # 0 .. (Deg(call.w0) - 1))

\* a word of several machine words came back to itself after the calls of
\* Next(true) went through the words of its weight, the wrap among them
C19_Witness ==
    /\ call.op = "NextWeight"
    /\ WCount(call.n) >= 2
    /\ call.count = Binom(call.n, 2)
    /\ call.w = call.w0
    /\ call.w = {1, call.n - 1}

\* the bits of w at the positions of wMask, moved in increasing order of
\* the positions to the positions 0, 1, ...
Packed(w, wMask) ==
    {Cardinality({j \in wMask : j < i}) : i \in w \cap wMask}

\* C20: Pack(mask) moves the bits at the positions of the mask, in
\* increasing order of the positions, to the positions 0 .. weight(mask) - 1
\* and zeroes every other position, for the words of one machine word and
\* of several.
C20_Pack ==
    call.op = "Pack" => call.w = Packed(call.w0, call.wMask)

\* C21: after every public operation on a word whose unused bits were
\* zero, the unused high bits of its last machine word are zero (SetWord,
\* SetOctet, FlipAll, the shifts and rotations, Next and Prev, SetLo and
\* SetHi, Pack and Unpack, the assignment of a word of another length).
C21_PaddingZero ==
    call.op \notin {"WW", "MM", "MP", "Geobucket"}
        => call.w \subseteq 0 .. (call.n - 1)

(***************************************************************************)
(* Properties of the engine with overridden hooks (specification           *)
(* SpecHooks).                                                             *)
(***************************************************************************)
\* Update(poly) is about to drop poly because a hook rejects it
UpdateRejects(poly) ==
    /\ poly # <<>>
    /\ ~IsContain(order, ListPolys(mem, _basis), poly)
    /\ \/ ~ValidatePre(poly)
       \/ /\ Reduce(order, ListPolys(mem, _basis), poly) # <<>>
          /\ ~Validate(Reduce(order, ListPolys(mem, _basis), poly))

\* the S-polynomial spoly of the first pair is about to be dropped because
\* a hook rejects it
SPolyRejects(spoly) ==
    /\ spoly # <<>>
    /\ \/ ~ValidatePre(spoly)
       \/ /\ Reduce(order, ListPolys(mem, _basis), spoly) # <<>>
          /\ ~Validate(Reduce(order, ListPolys(mem, _basis), spoly))

\* the iteration of Process() that starts drops its S-polynomial because a
\* hook rejects it
ProcessRejects ==
    /\ pc = "process"
    /\ _pairs # <<>>
    /\ ~Dangling(_pairs[1])
    /\ SPolyRejects(GetSPoly(order, mem, _pairs[1]))

C23_RoundTrip ==
    call.op = "Read" =>
        /\ ~call.is.fail
        /\ call.out = [m |-> call.m, p |-> call.p, w |-> call.w]

\* is a list of critical pairs sorted by lcm, non-decreasing in the order o
PairsSorted(o, s) == \A k \in 1 .. (Len(s) - 1) : ~CPLess(o, s[k + 1], s[k])

\* the step is one iteration of the loop of Process()
ProcessIteration == pc = "process" /\ pc' = "process"

\* the pair the iteration has moved to _pairs_processed
PairTaken == _pairs_processed'[Len(_pairs_processed')]

\* C24: the normal selection strategy.  After every step of the engine (every
\* Update(), hence every _Update, and every iteration of Process()) _pairs is
\* sorted by lcm in non-decreasing order, and the pair an iteration of
\* Process() takes has an lcm that no pair pending before the iteration
\* precedes in the order.
C24_NormalStrategy ==
    [][/\ PairsSorted(order, _pairs')
       /\ ProcessIteration =>
              /\ Len(_pairs_processed') = Len(_pairs_processed) + 1
              /\ \A k \in DOMAIN _pairs :
                     Compare(order, PairTaken.lcm, _pairs[k].lcm) <= 0]_vars

\* C24 witness: inside Process(), after an iteration, at least two pairs of
\* different lcm are pending and the pair taken last precedes them
C24_Witness ==
    /\ pc = "process"
    /\ _pairs_processed # <<>>
    /\ Len(_pairs) >= 2
    /\ CPLess(order, _pairs[1], _pairs[Len(_pairs)])
    /\ CPLess(order, _pairs_processed[Len(_pairs_processed)], _pairs[1])

\* the nodes of a list
Nodes(ids) == {ids[k] : k \in DOMAIN ids}

\* the pairs of a list
Pairs(cps) == {cps[k] : k \in DOMAIN cps}

\* the step is a call of Init()
InitStep == last' = "Init" /\ last # "Init"

\* the polynomials that entered the basis during the step
Entered == Nodes(_basis') \ Nodes(_basis)

\* is cp the r-pair of the node f with the node g, or, in a step that called
\* _Update more than once, with a node created by the step
IsRPairOfStep(cp, f, g) ==
    /\ cp.var1 = NoVar /\ cp.iter1 = f /\ CPIsRPair(cp)
    /\ cp.iter2 > Len(mem)
    /\ Len(mem') = Len(mem) + 1 => cp.iter2 = g

\* C25: the r-criterion.  In every step other than Init(), for every
\* polynomial g that entered the basis, every polynomial f the basis held
\* with LM(g) | LM(f) has left the basis, is in the reserve and its r-pair
\* (f, g) is pending or has been taken by Process() (in an Update() that
\* brought several polynomials in, the r-pair of f with the one of them
\* that met f in the basis); and every pending r-pair is still pending
\* after the step unless it is the pair the iteration of Process() took:
\* no criterion deletes it.
C25_RCriterion ==
    [][~InitStep =>
          /\ \A g \in Entered : \A f \in Nodes(_basis) :
                 IsDivide(LM(mem'[g]), LM(mem[f])) =>
                     /\ f \notin Nodes(_basis')
                     /\ f \in Nodes(_reserve')
                     /\ \E cp \in Pairs(_pairs') \cup Pairs(_pairs_processed') :
                            IsRPairOfStep(cp, f, g)
          /\ \A k \in DOMAIN _pairs :
                 CPIsRPair(_pairs[k]) =>
                     \/ _pairs[k] \in Pairs(_pairs')
                     \/ ProcessIteration /\ k = 1 /\ PairTaken = _pairs[k]]_vars

\* C25 witness: a polynomial is in the reserve, its r-pair is pending next
\* to other pairs, and Process() has taken pairs since
C25_Witness ==
    /\ pc = "process"
    /\ _pairs_processed # <<>>
    /\ \E k \in DOMAIN _pairs :
          /\ CPIsRPair(_pairs[k])
          /\ _pairs[k].var1 = NoVar
          /\ _pairs[k].iter1 \in Nodes(_reserve)
          /\ _pairs[k].iter2 \in Nodes(_basis)
    /\ \E k \in DOMAIN _pairs : ~CPIsRPair(_pairs[k])

\* the step has called _Update once, for the polynomial of the newest node
SingleUpdate == Len(mem') = Len(mem) + 1 /\ Len(mem') \in Nodes(_basis')

\* the pairs pending when _Update is called during the step
PendingBefore == IF ProcessIteration THEN Tail(_pairs) ELSE _pairs

\* does criterion A apply to the pair cp when g enters
CriterionAHits(cp, lmg) == IsDivide(lmg, cp.lcm) /\ ~CPIsRPair(cp)

\* C26: criterion A.  In a step that calls _Update(g) once, the pairs that
\* were pending before the call and are no longer pending are exactly the
\* pairs with LM(g) | lcm that are not r-pairs.
C26_CriterionA ==
    [][SingleUpdate =>
          \A k \in DOMAIN PendingBefore :
              CriterionAHits(PendingBefore[k], LM(mem'[Len(mem')]))
                  <=> PendingBefore[k] \notin Pairs(_pairs')]_vars

\* C26 witness: criterion A has erased pairs, and an r-pair is pending
\* whose lcm is divisible by the leading monomial of a polynomial that
\* entered the basis after the pair was made, next to a pair that is no
\* r-pair
C26_Witness ==
    /\ _stat.a_criterion > 0
    /\ \E g \in Nodes(_basis), k \in DOMAIN _pairs :
          /\ _pairs[k].var1 = NoVar /\ CPIsRPair(_pairs[k])
          /\ _pairs[k].iter1 < g /\ _pairs[k].iter2 < g
          /\ IsDivide(LM(mem[g]), _pairs[k].lcm)
    /\ \E k \in DOMAIN _pairs : ~CPIsRPair(_pairs[k])

\* is the pair cp consistent with the polynomials it points to, m being the
\* polynomials of the nodes and live the nodes of the basis and the reserve
PairConsistent(cp, m, live) ==
    /\ cp.iter2 \in live
    /\ m[cp.iter2] # <<>>
    /\ cp.lm2 = LM(m[cp.iter2])
    /\ cp.var1 = NoVar =>
           /\ cp.iter1 \in live
           /\ m[cp.iter1] # <<>>
           /\ cp.lm1 = LM(m[cp.iter1])
    /\ cp.var1 # NoVar => cp.lm1 = {cp.var1}
    /\ cp.lcm = LCM(cp.lm1, cp.lm2)

\* C27: after every step every pending pair points to polynomials that are
\* in the basis or in the reserve, and the leading monomials and the lcm it
\* stores are those of these polynomials; no step changes the leading
\* monomial of a polynomial that stays in the basis.
C27_PairsConsistent ==
    [][/\ \A cp \in Pairs(_pairs') :
              PairConsistent(cp, mem', Nodes(_basis') \cup Nodes(_reserve'))
       /\ ~InitStep =>
              \A f \in Nodes(_basis) \cap Nodes(_basis') :
                  LM(mem'[f]) = LM(mem[f])]_vars

\* has the polynomial of the node f been replaced by p mod g for an input p
\* of the session and the polynomial of the later node g
RewrittenBy(f, g) ==
    /\ f < g
    /\ \E p \in inputs : p # mem[f] /\ mem[f] = Mod(order, p, mem[g])

\* C27 witness: a pair (f, g) is pending whose polynomial f, a member of
\* the basis, has been replaced by f mod h for a polynomial h that entered
\* the basis after g
C27_Witness ==
    \E k \in DOMAIN _pairs :
        /\ _pairs[k].var1 = NoVar
        /\ _pairs[k].iter1 \in Nodes(_basis)
        /\ \E h \in Nodes(_basis) :
              h > _pairs[k].iter2 /\ RewrittenBy(_pairs[k].iter1, h)

\* C29: in a session with the default hooks, after every Update() and
\* every iteration of Process() no leading monomial of a polynomial of the
\* basis divides the leading monomial of another one (so they are pairwise
\* distinct).
C29_LMsIndependent ==
    \A j \in DOMAIN _basis, k \in DOMAIN _basis :
        j # k => ~IsDivide(LM(mem[_basis[j]]), LM(mem[_basis[k]]))

\* C29 witness: inside Process() the basis holds three polynomials and a
\* polynomial has been moved to the reserve
C29_Witness ==
    /\ pc = "process"
    /\ _pairs_processed # <<>>
    /\ Len(_basis) >= 3
    /\ _reserve # <<>>

\* the members of the basis that the loop of Reduce does not reach for the
\* monomial m: a member with a leading monomial greater than m precedes them
Skipped(m) ==
    {k \in DOMAIN _basis :
        \E j \in 1 .. (k - 1) : Compare(order, LM(mem[_basis[j]]), m) > 0}

TimesVar(o, i, p) ==
    Poly(o, {m \in MMs :
        Cardinality({k \in DOMAIN p : p[k] \cup {i} = m}) % 2 = 1})

\* the sum p + q
PolySum(o, p, q) ==
    Poly(o, (MonSet(p) \ MonSet(q)) \cup (MonSet(q) \ MonSet(p)))

\* the S-polynomial of x_i^2 - x_i and f when x_i divides LM(f): x_i f, and
\* x_i f + f when x_i f keeps the leading monomial of f
SPolyReduced(o, i, f) ==
    IF TimesVar(o, i, f) # <<>> /\ LM(TimesVar(o, i, f)) = LM(f)
    THEN PolySum(o, TimesVar(o, i, f), f)
    ELSE TimesVar(o, i, f)

\* C28 as stated: the S-polynomial of the pair of x_i^2 - x_i with f is x_i f
\* if x_i does not divide LM(f), and otherwise it is f, the lcm of the pair
\* being LM(f).
C28_SPolyIsF ==
    call.op = "GetSPoly" =>
        IF ~Test(LM(call.p), call.pos)
        THEN call.out.poly = TimesVar(order, call.pos, call.p)
        ELSE call.out.poly = call.p /\ call.m = LM(call.p)

\* C28: the S-polynomial of the pair of x_i^2 - x_i with f is x_i f if x_i
\* does not divide LM(f); otherwise the lcm of the pair is LM(f) and the
\* S-polynomial is x_i f reduced once by f: x_i f + f when x_i f has the
\* leading monomial of f, and x_i f when it has not.
C28_SPolyReduced ==
    call.op = "GetSPoly" =>
        IF ~Test(LM(call.p), call.pos)
        THEN call.out.poly = TimesVar(order, call.pos, call.p)
        ELSE /\ call.m = LM(call.p)
             /\ call.out.poly = SPolyReduced(order, call.pos, call.p)

\* C28 witness: x_i divides LM(f) and the S-polynomial returned is x_i f + f,
\* a polynomial that is neither zero nor f nor x_i f
C28_Witness ==
    /\ call.op = "GetSPoly"
    /\ Test(LM(call.p), call.pos)
    /\ call.out.poly = PolySum(order, TimesVar(order, call.pos, call.p), call.p)
    /\ call.out.poly \notin {<<>>, call.p, TimesVar(order, call.pos, call.p)}


====
